---- MODULE Spec2Model ----
(***************************************************************************)
(* Model of mankey: flashcards embedded in markdown documents are synced   *)
(* to an Anki store through AnkiConnect, and the identifier of each note   *)
(* is written back into the document as a marker "^anki-<13 digits>".      *)
(*                                                                         *)
(* Text is modelled as a sequence of one-character strings, a document as  *)
(* the character sequence of its file content.  A Python int is modelled   *)
(* by its canonical decimal digits (TLC's integers are 32 bits wide and a  *)
(* note identifier has 13 digits), Python's None by the empty sequence.    *)
(* Python list indices start at 0, sequence indices here at 1: a line      *)
(* number n of the source is line n+1 here, and every +1/-1 offset and     *)
(* every comparison of line numbers is carried over unchanged.             *)
(***************************************************************************)
EXTENDS Integers, Sequences, FiniteSets, TLC

VARIABLES
    disk,        \* storage: document -> file content (characters)
    store,       \* remote store: set of note records [id, model, front, back]
    decks,       \* remote store: set of deck names
    nextId,      \* remote store: index of the next identifier it assigns
    mdfiles,     \* MD_FILES: document -> [file_content, file_lines, updated_file_lines]
    deck_names,  \* ANKI_CONNECTOR.deck_names, the in-memory deck cache
    pc,          \* position of the process in main
    run,         \* number of the current run of the program
    log,         \* requests sent to the store during the current run
    hist,        \* observations of earlier steps, used only to state properties
    probe        \* one call of a recognizer or of a legacy importer: arguments and outcome

vars == <<disk, store, decks, nextId, mdfiles, deck_names, pc, run, log, hist, probe>>

(***************************************************************************)
(* Python values                                                           *)
(***************************************************************************)
None == <<>>

Digit == {"0", "1", "2", "3", "4", "5", "6", "7", "8", "9"}

Whitespace == {" ", "\t", "\n"}

IsDigits(s) == \A i \in 1..Len(s) : s[i] \in Digit

\* int(s) for a string of decimal digits: leading zeros do not count
RECURSIVE ParseInt(_)
ParseInt(s) ==
    IF Len(s) <= 1 THEN s
    ELSE IF s[1] = "0" THEN ParseInt(Tail(s)) ELSE s

\* f"{i}" for an int
FormatInt(i) == i

\* the truth value of "if anki_id:" and "if not self.anki_id:"
Truthy(i) == i # None /\ i # <<"0">>

(***************************************************************************)
(* str methods                                                             *)
(***************************************************************************)
StartsWithAt(s, i, lit) ==
    /\ i >= 1
    /\ i + Len(lit) - 1 <= Len(s)
    /\ SubSeq(s, i, i + Len(lit) - 1) = lit

StartsWith(s, lit) == StartsWithAt(s, 1, lit)

EndsWith(s, lit) == StartsWithAt(s, Len(s) - Len(lit) + 1, lit)

Contains(s, lit) == \E i \in 1..(Len(s) + 1) : StartsWithAt(s, i, lit)

\* str.find(lit, from): the first position >= from where lit occurs, 0 if none
Find(s, lit, from) ==
    LET hits == {i \in from..(Len(s) + 1) : StartsWithAt(s, i, lit)}
    IN  IF hits = {} THEN 0 ELSE CHOOSE i \in hits : \A j \in hits : i <= j

\* str.strip()
Strip(s) ==
    LET keep == {i \in 1..Len(s) : s[i] \notin Whitespace}
    IN  IF keep = {} THEN <<>>
        ELSE SubSeq(s, CHOOSE i \in keep : \A j \in keep : i <= j,
                       CHOOSE i \in keep : \A j \in keep : i >= j)

\* str.split("\n")
RECURSIVE SplitLines(_)
SplitLines(s) ==
    LET p == Find(s, <<"\n">>, 1)
    IN  IF p = 0 THEN <<s>>
        ELSE <<SubSeq(s, 1, p - 1)>> \o SplitLines(SubSeq(s, p + 1, Len(s)))

\* "\n".join(lines)
RECURSIVE JoinLines(_)
JoinLines(lines) ==
    IF Len(lines) = 0 THEN <<>>
    ELSE IF Len(lines) = 1 THEN lines[1]
    ELSE lines[1] \o <<"\n">> \o JoinLines(Tail(lines))

\* str.count(lit) for a non-empty lit: non-overlapping occurrences, left to right
RECURSIVE Count(_, _)
Count(s, lit) ==
    LET p == Find(s, lit, 1)
    IN  IF p = 0 THEN 0
        ELSE 1 + Count(SubSeq(s, p + Len(lit), Len(s)), lit)

\* str.replace(old, new, 1): the first occurrence only
ReplaceFirst(s, old, new) ==
    LET p == Find(s, old, 1)
    IN  IF p = 0 THEN s
        ELSE SubSeq(s, 1, p - 1) \o new \o SubSeq(s, p + Len(old), Len(s))

\* str.replace(old, new)
RECURSIVE ReplaceAll(_, _, _)
ReplaceAll(s, old, new) ==
    LET p == Find(s, old, 1)
    IN  IF p = 0 THEN s
        ELSE SubSeq(s, 1, p - 1) \o new
                 \o ReplaceAll(SubSeq(s, p + Len(old), Len(s)), old, new)

(***************************************************************************)
(* Marker codec                                                            *)
(***************************************************************************)
AnkiTag == <<"^", "a", "n", "k", "i", "-">>

IdDigits == 13

MarkerLen == Len(AnkiTag) + IdDigits

\* the regular expression \^anki-\d{13} matches at position i of s
MarkerAt(s, i) ==
    /\ StartsWithAt(s, i, AnkiTag)
    /\ i + MarkerLen - 1 <= Len(s)
    /\ IsDigits(SubSeq(s, i + Len(AnkiTag), i + MarkerLen - 1))

\* the positions where the regular expression's $ matches: the end of the
\* string, and just before a newline that ends the string
DollarEnds(s) ==
    {Len(s)} \cup (IF Len(s) > 0 /\ s[Len(s)] = "\n" THEN {Len(s) - 1} ELSE {})

\* re.search(r"\^anki-(\d{13})$", s): the start of the leftmost match, 0 if none
SearchMarkerAtEnd(s) ==
    LET hits == {i \in 1..Len(s) : MarkerAt(s, i) /\ (i + MarkerLen - 1) \in DollarEnds(s)}
    IN  IF hits = {} THEN 0 ELSE CHOOSE i \in hits : \A j \in hits : i <= j

\* group 1 of a marker match that starts at i, through int()
MarkerId(s, i) == ParseInt(SubSeq(s, i + Len(AnkiTag), i + MarkerLen - 1))

\* re.search(r"^\^anki-(\d{13})$", s)
IsMarkerLine(s) == SearchMarkerAtEnd(s) = 1

\* f"^anki-{anki_id}"
Marker(anki_id) == AnkiTag \o FormatInt(anki_id)

\* a decoder that never recognizes a marker
get_anki_id_never(string) == None

get_anki_id_from_line(string) ==
    LET i == SearchMarkerAtEnd(string)
    IN  IF i # 0 THEN MarkerId(string, i) ELSE None

\* SharedFlashcard.split_anki_id: the pair (answer without the marker, anki_id)
split_anki_id(answer) ==
    LET i == SearchMarkerAtEnd(answer)
    IN  IF i # 0
        THEN <<SubSeq(answer, 1, i - 1) \o SubSeq(answer, i + MarkerLen, Len(answer)),
               MarkerId(answer, i)>>
        ELSE <<answer, None>>

\* a strip_anki_id that removes nothing
strip_anki_id_nothing(text) == text

\* re.sub(r"\^anki-\d{13}", "", text)
RECURSIVE strip_anki_id(_)
strip_anki_id(text) ==
    IF Len(text) = 0 THEN text
    ELSE IF MarkerAt(text, 1) THEN strip_anki_id(SubSeq(text, MarkerLen + 1, Len(text)))
    ELSE <<Head(text)>> \o strip_anki_id(Tail(text))

(***************************************************************************)
(* Text transforms of BaseFlashcard                                        *)
(***************************************************************************)
\* the smallest element of a non-empty set of positions, 0 for the empty set
MinOr0(S) == IF S = {} THEN 0 ELSE CHOOSE i \in S : \A j \in S : i <= j

NoNewline(s, i, j) == \A k \in i..j : s[k] # "\n"

\* text.strip(); if it starts with "-" or "#": text[1:].strip()
\* (the ValueError for a text of several lines is the field "raised")
strip_single_line_formatting(text) ==
    LET t == Strip(text)
    IN  IF Len(t) > 0 /\ t[1] \in {"-", "#"} THEN Strip(Tail(t)) ELSE t

\* the end of the match of \$(\S(?:.*?\S)?)\$ that starts at p, 0 if none:
\* the optional group is tried first (the lazy .*? grows until "\S\$" fits),
\* the one-character body "\S\$" last
MathEnd(s, p) ==
    IF ~(p + 2 <= Len(s) /\ s[p] = "$" /\ s[p + 1] \notin Whitespace) THEN 0
    ELSE LET long == {q \in (p + 3)..Len(s) :
                         /\ s[q] = "$"
                         /\ s[q - 1] \notin Whitespace
                         /\ NoNewline(s, p + 2, q - 2)}
         IN  IF long # {} THEN MinOr0(long)
             ELSE IF s[p + 2] = "$" THEN p + 2 ELSE 0

MathOpen == <<"<anki-mathjax>">>

MathClose == <<"</anki-mathjax>">>

\* re.sub of \$(\S(?:.*?\S)?)\$ by group 1 inside an anki-mathjax element
RECURSIVE format_math(_)
format_math(string) ==
    IF Len(string) = 0 THEN string
    ELSE LET q == MathEnd(string, 1)
         IN  IF q # 0
             THEN MathOpen \o SubSeq(string, 2, q - 1) \o MathClose
                      \o format_math(SubSeq(string, q + 1, Len(string)))
             ELSE <<Head(string)>> \o format_math(Tail(string))

ImgOpen == <<"!", "[", "[">>

ImgClose == <<"]", "]">>

\* the start of the "]]" closing the match of !\[\[(.*?)\]\] that starts at p, 0 if none
ImgEnd(s, p) ==
    IF ~StartsWithAt(s, p, ImgOpen) THEN 0
    ELSE LET q == Find(s, ImgClose, p + 3)
         IN  IF q # 0 /\ NoNewline(s, p + 3, q - 1) THEN q ELSE 0

\* re.sub of !\[\[(.*?)\]\] by the img element whose src is group 1
RECURSIVE format_img(_)
format_img(string) ==
    IF Len(string) = 0 THEN string
    ELSE LET q == ImgEnd(string, 1)
         IN  IF q # 0
             THEN <<"<img src=\"">> \o SubSeq(string, 4, q - 1) \o <<"\">">>
                      \o format_img(SubSeq(string, q + 2, Len(string)))
             ELSE <<Head(string)>> \o format_img(Tail(string))

\* re.findall(r"!\[\[(.*?)\]\]", string): the image names, left to right
RECURSIVE image_names(_)
image_names(string) ==
    IF Len(string) = 0 THEN <<>>
    ELSE LET q == ImgEnd(string, 1)
         IN  IF q # 0
             THEN <<SubSeq(string, 4, q - 1)>> \o image_names(SubSeq(string, q + 2, Len(string)))
             ELSE image_names(Tail(string))

\* the backquote character (the parser accepts none inside a string)
Backquote == "BACKQUOTE"

\* the fence of a code block: three backquotes
Fence == <<Backquote, Backquote, Backquote>>

MermaidOpen == Fence \o <<"m", "e", "r", "m", "a", "i", "d">>

\* re.sub of fence mermaid(.*?) fence (DOTALL) by the div of class mermaid holding group 1
RECURSIVE format_mermaid(_)
format_mermaid(string) ==
    IF Len(string) = 0 THEN string
    ELSE LET q == IF StartsWith(string, MermaidOpen)
                  THEN Find(string, Fence, Len(MermaidOpen) + 1) ELSE 0
         IN  IF q # 0
             THEN <<"<div class=\"mermaid\">">>
                      \o SubSeq(string, Len(MermaidOpen) + 1, q - 1) \o <<"</div>">>
                      \o format_mermaid(SubSeq(string, q + Len(Fence), Len(string)))
             ELSE <<Head(string)>> \o format_mermaid(Tail(string))

\* markdown.markdown(string, ...): the external renderer, by its effect on a
\* paragraph of text: surrounding whitespace is dropped, the text is wrapped
markdown(string) ==
    LET t == Strip(string)
    IN  IF Len(t) = 0 THEN t ELSE <<"<p>">> \o t \o <<"</p>">>

(***************************************************************************)
(* Cloze and Definition: flashcards of a single line                       *)
(***************************************************************************)
DigitChars == <<"0", "1", "2", "3", "4", "5", "6", "7", "8", "9">>

\* f"{n}" for a small natural number n
RECURSIVE DigitsOf(_)
DigitsOf(n) ==
    IF n < 10 THEN <<DigitChars[n + 1]>>
    ELSE DigitsOf(n \div 10) \o <<DigitChars[(n % 10) + 1]>>

Stars == <<"*", "*">>

StarsColon == <<"*", "*", ":">>

ClozeOpen(n) == <<"{", "{", "c">> \o DigitsOf(n) \o <<":", ":">>

ClozeClose == <<"}", "}">>

\* a loop that gives every clozure the number 1
cloze_loop_one_number(string, cloze_number, total) ==
    IF cloze_number >= total THEN string
    ELSE ReplaceAll(ReplaceAll(ReplaceAll(string, Stars \o <<" ">>, ClozeClose \o <<" ">>),
                               <<" ">> \o Stars, <<" ">> \o ClozeOpen(1)),
                    Stars, ClozeClose)

\* the loop of format_clozue: for cloze_number in range(total), from cloze_number on
RECURSIVE cloze_loop(_, _, _)
cloze_loop(string, cloze_number, total) ==
    IF cloze_number >= total THEN string
    ELSE cloze_loop(ReplaceFirst(ReplaceFirst(string, Stars, ClozeOpen(cloze_number + 1)),
                                 Stars, ClozeClose),
                    cloze_number + 1, total)

format_clozue(string) ==
    LET s1 == format_math(string)
        s2 == strip_single_line_formatting(s1)
        s3 == strip_anki_id(s2)
        s4 == format_img(s3)
    IN  markdown(cloze_loop(s4, 0, Count(s4, Stars) \div 2))

\* Cloze.__init__
Cloze(cloze_string) ==
    [kind |-> "Cloze",
     raised |-> FALSE,
     modelName |-> "Cloze",
     front |-> format_clozue(cloze_string),
     back |-> None,
     media |-> image_names(format_clozue(cloze_string)),
     anki_id |-> get_anki_id_from_line(cloze_string)]

\* the start of the leftmost match of \*\*(.*?)\*\*: in s, 0 if none
DefMatchStart(s) ==
    MinOr0({p \in 1..Len(s) : StartsWithAt(s, p, Stars) /\ Find(s, StarsColon, p + 2) # 0})

\* len(re.findall(r"\*\*(.*?)\*\*:", s))
RECURSIVE CountDefMatches(_)
CountDefMatches(s) ==
    LET p == DefMatchStart(s)
    IN  IF p = 0 THEN 0
        ELSE 1 + CountDefMatches(SubSeq(s, Find(s, StarsColon, p + 2) + 3, Len(s)))

\* MDFile.is_definition
is_definition(text) ==
    LET t1 == Strip(text)
        t2 == IF StartsWith(t1, <<"-">>) THEN Strip(Tail(t1)) ELSE t1
    IN  StartsWith(t2, Stars) /\ CountDefMatches(t2) = 1

\* Definition.format_definition: the pair (word, definition), or the ValueError
format_definition(string) ==
    LET s1 == format_math(string)
        s2 == strip_single_line_formatting(s1)
        s3 == strip_anki_id(s2)
        s4 == format_img(s3)
        p  == DefMatchStart(s4)
        q  == Find(s4, StarsColon, p + 2)
    IN  IF p = 0 THEN [raised |-> TRUE, word |-> None, definition |-> None]
        ELSE [raised |-> FALSE,
              word |-> markdown(SubSeq(s4, p + 2, q - 1)),
              definition |-> markdown(SubSeq(s4, q + 3, Len(s4)))]

\* Definition.__init__, with the fields import_flashcard computes
Definition(word_definition_string) ==
    LET f == format_definition(word_definition_string)
    IN  [kind |-> "Definition",
         raised |-> f.raised,
         modelName |-> "Basic (and reversed card)",
         front |-> f.word,
         back |-> f.definition,
         media |-> <<>>,
         anki_id |-> get_anki_id_from_line(word_definition_string)]

\* BaseSingleLineFlashcard.new_line_content, after raise_if_anki_id_not_defined
single_new_line_content(file_lines, line_number, anki_id) ==
    IF ~EndsWith(file_lines[line_number], <<" ">> \o Marker(anki_id))
    THEN file_lines[line_number] \o <<" ">> \o Marker(anki_id)
    ELSE file_lines[line_number]

(***************************************************************************)
(* BaseMultiLineFlashcard, HeaderQuestionAnswer, InlineQuestionAnswer      *)
(***************************************************************************)
QuestionWord == <<"Q", "u", "e", "s", "t", "i", "o", "n">>

AnswerWord == <<"A", "n", "s", "w", "e", "r">>

\* len(line.split(sep)[0]): the number of characters before the first sep
FirstFieldLen(line, sep) ==
    LET p == Find(line, <<sep>>, 1) IN IF p = 0 THEN Len(line) ELSE p - 1

\* the number of times character c is repeated at the start of s
RECURSIVE LeadingRun(_, _)
LeadingRun(s, c) ==
    IF Len(s) > 0 /\ s[1] = c THEN 1 + LeadingRun(Tail(s), c) ELSE 0

\* BaseMultiLineFlashcard.get_multiline_anki_id
get_multiline_anki_id(file_lines, answer_end_line) ==
    IF SearchMarkerAtEnd(file_lines[answer_end_line]) # 0
    THEN MarkerId(file_lines[answer_end_line], SearchMarkerAtEnd(file_lines[answer_end_line]))
    ELSE IF Len(file_lines) > answer_end_line /\ IsMarkerLine(file_lines[answer_end_line + 1])
    THEN MarkerId(file_lines[answer_end_line + 1], 1)
    ELSE None

\* an encoder that always appends the marker to the line itself
multi_inline_only(file_lines, answer_end_line, anki_id) ==
    single_new_line_content(file_lines, answer_end_line, anki_id)

\* BaseMultiLineFlashcard.new_line_content, after raise_if_anki_id_not_defined
multi_new_line_content(file_lines, answer_end_line, anki_id) ==
    IF /\ ~EndsWith(file_lines[answer_end_line], <<" ">> \o Marker(anki_id))
       /\ ~(/\ Len(file_lines) > answer_end_line
            /\ file_lines[answer_end_line + 1] = Marker(anki_id))
    THEN IF EndsWith(Strip(file_lines[answer_end_line]), Fence)
         THEN file_lines[answer_end_line] \o <<"\n">> \o Marker(anki_id)
         ELSE file_lines[answer_end_line] \o <<" ">> \o Marker(anki_id)
    ELSE file_lines[answer_end_line]

\* re.match(r"^#+\sQuestion", line_content)
IsHeaderQuestion(line_content) ==
    LET h == LeadingRun(line_content, "#")
    IN  /\ h >= 1
        /\ h + 1 <= Len(line_content)
        /\ line_content[h + 1] \in Whitespace
        /\ StartsWithAt(line_content, h + 2, QuestionWord)

\* re.match of #{level}\sAnswer
IsHeaderAnswer(line_content, level) ==
    /\ level + 1 <= Len(line_content)
    /\ \A i \in 1..level : line_content[i] = "#"
    /\ line_content[level + 1] \in Whitespace
    /\ StartsWithAt(line_content, level + 2, AnswerWord)

\* re.match of #{1,level}
IsHeaderBoundary(line_content, level) ==
    level >= 1 /\ StartsWith(line_content, <<"#">>)

\* HeaderQuestionAnswer.get_question_end_line: 0 stands for the ValueError
header_question_end_line(file_lines, question_start_line, question_level) ==
    LET hits == {n \in 1..Len(file_lines) :
                    n > question_start_line /\ IsHeaderAnswer(file_lines[n], question_level)}
    IN  IF hits = {} THEN 0 ELSE MinOr0(hits) - 1

\* HeaderQuestionAnswer.get_answer_end_line
header_answer_end_line(file_lines, answer_start_line, question_level) ==
    LET last_line == Len(file_lines)
        hits == {n \in 1..(last_line - 1) :
                    /\ n > answer_start_line
                    /\ \/ IsHeaderBoundary(file_lines[n], question_level)
                       \/ IsMarkerLine(file_lines[n])}
    IN  IF hits = {} THEN last_line ELSE MinOr0(hits) - 1

\* HeaderQuestionAnswer.format_string
header_format_string(file_lines, start_line, end_line) ==
    markdown(format_mermaid(format_img(format_math(strip_anki_id(
        JoinLines(SubSeq(file_lines, start_line, end_line)))))))

\* HeaderQuestionAnswer.__init__
HeaderQuestionAnswer(file_lines, start_line) ==
    LET question_level == FirstFieldLen(file_lines[start_line], " ")
        question_start_line == start_line + 1
        question_end_line ==
            header_question_end_line(file_lines, question_start_line, question_level)
        answer_start_line == question_end_line + 2
        answer_end_line == header_answer_end_line(file_lines, answer_start_line, question_level)
    IN  IF question_end_line = 0
        THEN [kind |-> "Header", raised |-> TRUE, modelName |-> "Basic", front |-> None,
              back |-> None, media |-> <<>>, anki_id |-> None,
              question_start_line |-> question_start_line, answer_end_line |-> 0,
              question_end_line |-> 0, answer_start_line |-> 0,
              question_level |-> question_level]
        ELSE [kind |-> "Header", raised |-> FALSE, modelName |-> "Basic",
              front |-> header_format_string(file_lines, question_start_line, question_end_line),
              back |-> header_format_string(file_lines, answer_start_line, answer_end_line),
              media |-> <<>>,
              anki_id |-> get_multiline_anki_id(file_lines, answer_end_line),
              question_start_line |-> question_start_line,
              answer_end_line |-> answer_end_line,
              question_end_line |-> question_end_line,
              answer_start_line |-> answer_start_line,
              question_level |-> question_level]

\* re.match(r"^-+\sQuestion", line_content.strip())
IsInlineQuestion(line_content) ==
    LET t == Strip(line_content)
        h == LeadingRun(t, "-")
    IN  /\ h >= 1
        /\ h + 1 <= Len(t)
        /\ t[h + 1] \in Whitespace
        /\ StartsWithAt(t, h + 2, QuestionWord)

DashAnswer == <<"-", " ">> \o AnswerWord

DashQuestion == <<"-", " ">> \o QuestionWord

\* re.match of " {level}-\sAnswer"
IsInlineAnswer(line_content, level) ==
    /\ level + 2 <= Len(line_content)
    /\ \A i \in 1..level : line_content[i] = " "
    /\ line_content[level + 1] = "-"
    /\ line_content[level + 2] \in Whitespace
    /\ StartsWithAt(line_content, level + 3, AnswerWord)

\* re.match of " {0,level}-|#"
IsInlineBoundary(line_content, level) ==
    \/ \E k \in 0..level :
          /\ k + 1 <= Len(line_content)
          /\ \A i \in 1..k : line_content[i] = " "
          /\ line_content[k + 1] = "-"
    \/ StartsWith(line_content, <<"#">>)

\* InlineQuestionAnswer.get_question_start_line
inline_question_start_line(file_lines, start_line) ==
    IF EndsWith(file_lines[start_line], DashQuestion) THEN start_line + 1 ELSE start_line

\* InlineQuestionAnswer.get_question_end_line: 0 stands for the ValueError
inline_question_end_line(file_lines, question_start_line, question_level) ==
    LET hits == {n \in 1..Len(file_lines) :
                    n > question_start_line /\ IsInlineAnswer(file_lines[n], question_level)}
    IN  IF hits = {} THEN 0 ELSE MinOr0(hits) - 1

\* InlineQuestionAnswer.get_answer_start_line: 0 stands for the ValueError
inline_answer_start_line(file_lines, question_start_line) ==
    LET hits == {n \in 1..Len(file_lines) :
                    n > question_start_line /\ Contains(file_lines[n], DashAnswer)}
        n0 == MinOr0(hits)
    IN  IF hits = {} THEN 0
        ELSE IF EndsWith(file_lines[n0], DashAnswer) THEN n0 + 1 ELSE n0

\* InlineQuestionAnswer.get_answer_end_line
inline_answer_end_line(file_lines, answer_start_line, question_level) ==
    LET last_line == Len(file_lines)
        hits == {n \in 1..(last_line - 1) :
                    /\ n > answer_start_line
                    /\ \/ IsInlineBoundary(file_lines[n], question_level)
                       \/ IsMarkerLine(file_lines[n])}
    IN  IF hits = {} THEN last_line ELSE MinOr0(hits) - 1

\* "\t" * question_level
RECURSIVE Tabs(_)
Tabs(n) == IF n <= 0 THEN <<>> ELSE <<"\t">> \o Tabs(n - 1)

\* line.replace(rep_string, "") (replacing the empty string by itself changes nothing)
StripIndent(line, rep_string) ==
    IF Len(rep_string) = 0 THEN line ELSE ReplaceAll(line, rep_string, <<>>)

\* InlineQuestionAnswer.format_string
inline_format_string(file_lines, start_line, end_line, question_level) ==
    LET s1 == format_mermaid(format_img(format_math(strip_anki_id(
                  JoinLines(SubSeq(file_lines, start_line, end_line))))))
        s2 == ReplaceAll(s1, DashQuestion \o <<":", " ">>, <<"-", " ">>)
        s3 == ReplaceAll(s2, DashAnswer \o <<":", " ">>, <<"-", " ">>)
        split_string == SplitLines(s3)
        stripped ==
            IF Len(split_string) = 1
            THEN <<strip_single_line_formatting(split_string[1])>>
            ELSE [i \in 1..Len(split_string) |->
                     StripIndent(split_string[i], Tabs(question_level))]
    IN  markdown(JoinLines(stripped))

\* InlineQuestionAnswer.__init__
InlineQuestionAnswer(file_lines, start_line) ==
    LET question_level == FirstFieldLen(file_lines[start_line], "-")
        question_start_line == inline_question_start_line(file_lines, start_line)
        question_end_line ==
            inline_question_end_line(file_lines, question_start_line, question_level)
        answer_start_line == inline_answer_start_line(file_lines, question_start_line)
        answer_end_line == inline_answer_end_line(file_lines, answer_start_line, question_level)
    IN  IF question_end_line = 0 \/ answer_start_line = 0
        THEN [kind |-> "Inline", raised |-> TRUE, modelName |-> "Basic", front |-> None,
              back |-> None, media |-> <<>>, anki_id |-> None,
              question_start_line |-> question_start_line, answer_end_line |-> 0,
              question_end_line |-> 0, answer_start_line |-> 0,
              question_level |-> question_level]
        ELSE [kind |-> "Inline", raised |-> FALSE, modelName |-> "Basic",
              front |-> inline_format_string(file_lines, question_start_line,
                                             question_end_line, question_level),
              back |-> inline_format_string(file_lines, answer_start_line,
                                            answer_end_line, question_level),
              media |-> <<>>,
              anki_id |-> get_multiline_anki_id(file_lines, answer_end_line),
              question_start_line |-> question_start_line,
              answer_end_line |-> answer_end_line,
              question_end_line |-> question_end_line,
              answer_start_line |-> answer_start_line,
              question_level |-> question_level]

(***************************************************************************)
(* The remote store behind AnkiConnector.invoke                            *)
(*                                                                         *)
(* The store is an external collaborator.  What the program can observe of *)
(* it is modelled: a request is answered by a result or by an error text,  *)
(* and any request may fail.  addNote is refused with the duplicate text   *)
(* when a note of the same model has the same first field, unless the      *)
(* request allows duplicates; updateNote fails for an identifier the store *)
(* does not have; the notes found by findNotes for the text of a refused   *)
(* note are none (the search syntax did not match), the duplicate alone,   *)
(* or the duplicate and another note.                                      *)
(***************************************************************************)
\* the identifiers the store assigns: 13 digits, the k-th one ends in k
RECURSIVE Zeros(_)
Zeros(n) == IF n <= 0 THEN <<>> ELSE <<"0">> \o Zeros(n - 1)

NewId(k) == <<"1">> \o Zeros(IdDigits - 1 - Len(DigitsOf(k))) \o DigitsOf(k)

\* an identifier assigned before the first run
OldId == <<"1">> \o Zeros(IdDigits - 2) \o <<"0">>

StoreIds == {n.id : n \in store}

\* the notes that make addNote of (modelName, front) a duplicate
Duplicates(modelName, front) ==
    {n.id : n \in {m \in store : m.model = modelName /\ m.front = front}}

\* the field names of a model: Cloze has Text, the Basic models Front and Back
HasFrontBack(modelName) == modelName # "Cloze"

\* the store after updateNote: only fields the note's model has are written
UpdatedStore(anki_id, modelName, front, back) ==
    {IF n.id = anki_id /\ HasFrontBack(n.model) = HasFrontBack(modelName)
     THEN [n EXCEPT !.front = front, !.back = back] ELSE n : n \in store}

\* the results findNotes may give for the text of a note refused as a duplicate
FindResponses(dups) ==
    {<<>>} \cup {<<x>> : x \in dups}
           \cup {p \in dups \X StoreIds : p[1] # p[2]}

(***************************************************************************)
(* AnkiConnector                                                           *)
(***************************************************************************)
\* params of addNote carry no "options": the store's duplicate check applies
AllowDuplicateMutant == TRUE

AllowDuplicate == FALSE

\* find_definition, find_question_answer, find_clozure after findNotes returned
\* matches: the identifier, or the ValueError "Expected 1 match"
FindPicksFirst(matches) ==
    IF Len(matches) >= 1
    THEN [raised |-> FALSE, value |-> matches[1]]
    ELSE [raised |-> TRUE, value |-> None]

FindNeverReturns(matches) == [raised |-> TRUE, value |-> None]

find_definition(matches) ==
    IF Len(matches) = 1
    THEN [raised |-> FALSE, value |-> matches[1]]
    ELSE [raised |-> TRUE, value |-> None]

find_question_answer(matches) ==
    IF Len(matches) = 1
    THEN [raised |-> FALSE, value |-> matches[1]]
    ELSE [raised |-> TRUE, value |-> None]

find_clozure(matches) ==
    IF Len(matches) = 1
    THEN [raised |-> FALSE, value |-> matches[1]]
    ELSE [raised |-> TRUE, value |-> None]

\* the start of the "}}" closing the match of {{c\d::(.*?)}} that starts at p, 0 if none
ClozeMarkEnd(s, p) ==
    IF ~(/\ StartsWithAt(s, p, <<"{", "{", "c">>)
         /\ p + 5 <= Len(s)
         /\ s[p + 3] \in Digit
         /\ StartsWithAt(s, p + 4, <<":", ":">>)) THEN 0
    ELSE LET q == Find(s, ClozeClose, p + 6)
         IN  IF q # 0 /\ NoNewline(s, p + 6, q - 1) THEN q ELSE 0

\* re.sub(r"{{c\d::(.*?)}}", r"\1", clozure)
RECURSIVE declozure(_)
declozure(clozure) ==
    IF Len(clozure) = 0 THEN clozure
    ELSE LET q == ClozeMarkEnd(clozure, 1)
         IN  IF q # 0
             THEN SubSeq(clozure, 7, q - 1) \o declozure(SubSeq(clozure, q + 2, Len(clozure)))
             ELSE <<Head(clozure)>> \o declozure(Tail(clozure))

\* the query find_definition, find_question_answer and find_clozure send to findNotes
find_query(card) ==
    IF card.kind = "Cloze"
    THEN ReplaceAll(declozure(card.front), <<"\\">>, <<"\\", "\\">>)
    ELSE card.front

\* the find function an import falls back to
find_note(card, matches) ==
    IF card.kind = "Cloze" THEN find_clozure(matches)
    ELSE IF card.kind = "Definition" THEN find_definition(matches)
    ELSE find_question_answer(matches)

(***************************************************************************)
(* Documents                                                               *)
(***************************************************************************)
\* bounds of the model
NumDocs == 2

MaxBlocks == 1

MaxRuns == 2

DocIds == 1..NumDocs

\* the path of document d below the configured root: the documents lie in
\* different directories, the first two in directories of the same name
DocPath(d) ==
    <<IF d % 2 = 1 THEN "x" ELSE "y", IF d <= 2 THEN "topic" ELSE "other", d>>

\* BaseFlashcard.deck_name: md_file.parent.name
deck_name(d) == DocPath(d)[Len(DocPath(d)) - 1]

ClozeLine == <<"T", " ", "*", "*", "x", "*", "*">>

OtherClozeLine == <<"U", " ", "*", "*", "y", "*", "*">>

DefinitionLine == <<"*", "*", "w", "*", "*", ":", " ", "d">>

HeaderQuestionLine == <<"#", " ">> \o QuestionWord

HeaderAnswerLine == <<"#", " ">> \o AnswerWord

InlineQuestionLine == DashQuestion

InlineAnswerLine == DashAnswer

InlineBlock ==
    <<InlineQuestionLine, <<"\t", "-", " ", "i">>, InlineAnswerLine, <<"\t", "-", " ", "j">>>>

\* the blocks documents are made of: each is a sequence of lines
Blocks ==
    { <<ClozeLine>>,
      <<ClozeLine, <<>>>>,
      <<ClozeLine, OtherClozeLine>>,
      <<OtherClozeLine \o <<" ">> \o Marker(OldId)>>,
      <<DefinitionLine>>,
      <<HeaderQuestionLine, <<"q">>, HeaderAnswerLine, <<"r">>>>,
      <<HeaderQuestionLine, <<"q">>, HeaderAnswerLine, <<"r">>, <<"#", " ", "N">>>>,
      <<HeaderQuestionLine, <<"k">>, HeaderAnswerLine, Fence, <<"c">>, Fence>>,
      <<HeaderQuestionLine, <<"k">>, HeaderAnswerLine, Fence, <<"c">>, Fence, <<>>>>,
      <<HeaderQuestionLine, <<"m">>, HeaderAnswerLine, ClozeLine>>,
      <<HeaderQuestionLine, <<"u">>>>,
      InlineBlock,
      InlineBlock \o <<<<"-", " ", "z">>>>,
      <<ClozeLine, DefinitionLine, HeaderQuestionLine, <<"q">>, HeaderAnswerLine, <<"r">>>>
          \o InlineBlock,
      <<<<"#", " ", "N">>>> }

RECURSIVE Flatten(_)
Flatten(blocks) ==
    IF Len(blocks) = 0 THEN <<>> ELSE Head(blocks) \o Flatten(Tail(blocks))

\* the contents a document may have before the first run
Documents ==
    {JoinLines(Flatten(bs)) : bs \in UNION {[1..k -> Blocks] : k \in 1..MaxBlocks}}

\* the note the store may hold before the first run
OldNote == [id |-> OldId, model |-> "Cloze", front |-> <<"o">>, back |-> None]

(***************************************************************************)
(* MDFile and main                                                         *)
(***************************************************************************)
\* MDFile.__init__
MDFile(file_content) ==
    [file_content |-> file_content,
     file_lines |-> SplitLines(file_content),
     updated_file_lines |-> SplitLines(file_content)]

Importers == <<"clozes", "definitions", "header", "inline">>

\* a cloze loop that does not set definitions aside
IsCardLineNoExclusion(phase, line_content) ==
    CASE phase = "clozes" -> Contains(line_content, Stars)
      [] phase = "definitions" -> is_definition(line_content)
      [] phase = "header" -> IsHeaderQuestion(line_content)
      [] phase = "inline" -> IsInlineQuestion(line_content)

\* the condition under which an importer's loop takes a line as a flashcard
IsCardLine(phase, line_content) ==
    CASE phase = "clozes" -> Contains(line_content, Stars) /\ ~is_definition(line_content)
      [] phase = "definitions" -> is_definition(line_content)
      [] phase = "header" -> IsHeaderQuestion(line_content)
      [] phase = "inline" -> IsInlineQuestion(line_content)

\* the next line, from the loop's position on, that the importer takes; 0 if none
NextCardLine(phase, file_lines, from) ==
    MinOr0({n \in from..Len(file_lines) : IsCardLine(phase, file_lines[n])})

\* no recognizer has been called on its own
NoProbe == [op |-> "none"]

NoCall ==
    [doc |-> 0, kind |-> "none", start |-> 0, line |-> 0, had_id |-> None, request |-> "none",
     stale |-> FALSE, dup |-> FALSE, matches |-> <<>>, raised |-> FALSE,
     fields |-> <<>>, value |-> None, text |-> <<>>, before |-> <<>>, after |-> <<>>]

Init ==
    /\ \E first \in Documents :
          disk = [d \in DocIds |-> IF d = 1 THEN first ELSE OtherClozeLine]
    /\ store \in {{}, {OldNote}}
    /\ decks = <<>>
    /\ nextId = 1
    /\ mdfiles = [d \in DocIds |-> MDFile(<<>>)]
    /\ deck_names = <<>>
    /\ pc = [phase |-> "boot", doc |-> 0, line |-> 0, cause |-> "none"]
    /\ run = 0
    /\ log = <<>>
    /\ hist = [prevComplete |-> FALSE, interrupted |-> FALSE, diskAtBoot |-> disk, diskAtStart |-> disk,
               last |-> NoCall, obtained |-> {}, created |-> {}]
    /\ probe = NoProbe

InSeq(x, seq) == \E i \in 1..Len(seq) : seq[i] = x

\* module load: MD_FILES reads every document, AnkiConnector.__init__ fetches the
\* deck names; a new run starts after the last one ended, completed or not
Boot ==
    /\ pc.phase \in {"boot", "halted", "done"}
    /\ run < MaxRuns
    /\ run' = run + 1
    /\ mdfiles' = [d \in DocIds |-> MDFile(disk[d])]
    /\ deck_names' = decks
    /\ log' = <<[action |-> "deckNames", doc |-> 0, id |-> None],
                [action |-> "getMediaFilesNames", doc |-> 0, id |-> None]>>
    /\ pc' = [phase |-> "clozes", doc |-> 1, line |-> 1, cause |-> "none"]
    /\ hist' = [hist EXCEPT !.prevComplete = (pc.phase = "done"),
                            !.interrupted = @ \/ (pc.phase = "halted" /\ hist.obtained # {}),
                            !.diskAtBoot = disk,
                            !.last = NoCall,
                            !.obtained = {}]
    /\ UNCHANGED <<disk, store, decks, nextId, probe>>

\* the answers the store may give to the request a flashcard's import sends
Responses(card) ==
    IF card.raised THEN {[type |-> "none", matches |-> <<>>]}
    ELSE IF Truthy(card.anki_id)
    THEN {[type |-> "ok", matches |-> <<>>] : x \in {card.anki_id} \cap StoreIds}
             \cup {[type |-> "error", matches |-> <<>>]}
    ELSE (IF Duplicates(card.modelName, card.front) = {} \/ AllowDuplicate
          THEN {[type |-> "ok", matches |-> <<>>]}
          ELSE {[type |-> "duplicate", matches |-> m] :
                   m \in FindResponses(Duplicates(card.modelName, card.front))})
             \cup {[type |-> "error", matches |-> <<>>]}

\* import_definition, import_question_answer, import_clozure: what the call
\* returns or raises when the store answers resp
import_note(card, resp) ==
    IF Truthy(card.anki_id)
    THEN IF resp.type = "ok"
         THEN [raised |-> FALSE, cause |-> "none", value |-> card.anki_id]
         ELSE [raised |-> TRUE, cause |-> "remote", value |-> None]
    ELSE IF resp.type = "ok"
         THEN [raised |-> FALSE, cause |-> "none", value |-> NewId(nextId)]
    ELSE IF resp.type = "duplicate"
         THEN [raised |-> find_note(card, resp.matches).raised,
               cause |-> IF find_note(card, resp.matches).raised THEN "ambiguous" ELSE "none",
               value |-> find_note(card, resp.matches).value]
    ELSE [raised |-> TRUE, cause |-> "remote", value |-> None]

\* an import that asks for the deck whatever the cache holds
RequestsAlwaysCreate(d, card, resp) ==
    <<[action |-> "createDeck", doc |-> d, id |-> None]>>
    \o (IF Truthy(card.anki_id)
        THEN <<[action |-> "updateNote", doc |-> d, id |-> card.anki_id]>>
        ELSE <<[action |-> "addNote", doc |-> d, id |-> None]>>)
    \o (IF resp.type = "duplicate"
        THEN <<[action |-> "findNotes", doc |-> d, id |-> find_query(card)]>>
        ELSE <<>>)

\* an import that sends the note before it creates the deck
RequestsNoteFirst(d, card, resp) ==
    (IF Truthy(card.anki_id)
     THEN <<[action |-> "updateNote", doc |-> d, id |-> card.anki_id]>>
     ELSE <<[action |-> "addNote", doc |-> d, id |-> None]>>)
    \o (IF InSeq(deck_name(d), deck_names) THEN <<>>
        ELSE <<[action |-> "createDeck", doc |-> d, id |-> None]>>)
    \o (IF resp.type = "duplicate"
        THEN <<[action |-> "findNotes", doc |-> d, id |-> find_query(card)]>>
        ELSE <<>>)

\* the requests one import sends, in order
Requests(d, card, resp) ==
    (IF InSeq(deck_name(d), deck_names) THEN <<>>
     ELSE <<[action |-> "createDeck", doc |-> d, id |-> None]>>)
    \o (IF Truthy(card.anki_id)
        THEN <<[action |-> "updateNote", doc |-> d, id |-> card.anki_id]>>
        ELSE <<[action |-> "addNote", doc |-> d, id |-> None]>>)
    \o (IF resp.type = "duplicate"
        THEN <<[action |-> "findNotes", doc |-> d, id |-> find_query(card)]>>
        ELSE <<>>)

\* a new_line_content that strips the line before it appends the marker
new_line_content_stripped(kind, file_lines, line_number, anki_id) ==
    Strip(file_lines[line_number]) \o <<" ">> \o Marker(anki_id)

\* new_line_content of the flashcard's class
new_line_content(kind, file_lines, line_number, anki_id) ==
    IF kind \in {"Cloze", "Definition"}
    THEN single_new_line_content(file_lines, line_number, anki_id)
    ELSE multi_new_line_content(file_lines, line_number, anki_id)

\* One pass of an importer's loop body for the flashcard found at line n:
\* the constructor, import_flashcard (create_deck, then the import call) and
\* new_line_content, whose result replaces updated_file_lines[target].
\* An exception ends the program.
SyncCard(d, n, card, target) ==
    \E resp \in Responses(card) :
        LET res == import_note(card, resp)
            failed == card.raised \/ res.raised \/ ~Truthy(res.value)
            new_line == new_line_content(card.kind, mdfiles[d].file_lines, target, res.value)
        IN  /\ pc' = IF failed
                     THEN [phase |-> "halted", doc |-> d, line |-> n,
                           cause |-> IF card.raised THEN "constructor"
                                     ELSE IF res.raised THEN res.cause ELSE "no_id"]
                     ELSE [pc EXCEPT !.line = n + 1]
            /\ deck_names' = IF card.raised \/ InSeq(deck_name(d), deck_names)
                             THEN deck_names ELSE Append(deck_names, deck_name(d))
            /\ decks' = IF card.raised \/ InSeq(deck_name(d), deck_names)
                           \/ InSeq(deck_name(d), decks)
                        THEN decks ELSE Append(decks, deck_name(d))
            /\ log' = IF card.raised THEN log ELSE log \o Requests(d, card, resp)
            /\ store' = IF card.raised \/ resp.type # "ok" THEN store
                        ELSE IF Truthy(card.anki_id)
                        THEN UpdatedStore(card.anki_id, card.modelName, card.front, card.back)
                        ELSE store \cup {[id |-> NewId(nextId), model |-> card.modelName,
                                          front |-> card.front, back |-> card.back]}
            /\ nextId' = IF ~card.raised /\ resp.type = "ok" /\ ~Truthy(card.anki_id)
                         THEN nextId + 1 ELSE nextId
            /\ mdfiles' = IF failed THEN mdfiles
                          ELSE [mdfiles EXCEPT ![d].updated_file_lines[target] = new_line]
            /\ hist' = [hist EXCEPT
                   !.last = [doc |-> d, kind |-> card.kind, start |-> n, line |-> target,
                             had_id |-> card.anki_id,
                             request |-> IF card.raised THEN "none"
                                         ELSE IF Truthy(card.anki_id) THEN "updateNote"
                                         ELSE "addNote",
                             stale |-> ~card.raised /\ Truthy(card.anki_id)
                                           /\ card.anki_id \notin StoreIds,
                             dup |-> resp.type = "duplicate",
                             matches |-> resp.matches,
                             raised |-> failed,
                             fields |-> IF card.raised THEN <<>>
                                        ELSE <<card.front, card.back>>,
                             value |-> IF card.raised THEN None ELSE res.value,
                             text |-> IF target = 0 THEN <<>>
                                      ELSE mdfiles[d].file_lines[target],
                             before |-> IF target = 0 THEN <<>>
                                        ELSE mdfiles[d].updated_file_lines[target],
                             after |-> IF target = 0 THEN <<>>
                                       ELSE IF failed THEN mdfiles[d].updated_file_lines[target]
                                       ELSE new_line],
                   !.obtained = IF failed THEN @ ELSE @ \cup {[doc |-> d, id |-> res.value]},
                   !.created = IF ~card.raised /\ resp.type = "ok" /\ ~Truthy(card.anki_id)
                               THEN @ \cup {[model |-> card.modelName, front |-> card.front,
                                             id |-> NewId(nextId)]}
                               ELSE @]
            /\ UNCHANGED <<disk, run, probe>>

\* MDFile.import_clozes: the loop body for the next cloze line
import_clozes ==
    /\ pc.phase = "clozes"
    /\ LET d == pc.doc
           file_lines == mdfiles[d].file_lines
           n == NextCardLine("clozes", file_lines, pc.line)
       IN  /\ n # 0
           /\ SyncCard(d, n, Cloze(file_lines[n]), n)

\* MDFile.import_definitions: the loop body for the next definition line
import_definitions ==
    /\ pc.phase = "definitions"
    /\ LET d == pc.doc
           file_lines == mdfiles[d].file_lines
           n == NextCardLine("definitions", file_lines, pc.line)
       IN  /\ n # 0
           /\ SyncCard(d, n, Definition(file_lines[n]), n)

\* MDFile.import_header_question_answer: the loop body for the next "# Question" line
import_header_question_answer ==
    /\ pc.phase = "header"
    /\ LET d == pc.doc
           file_lines == mdfiles[d].file_lines
           n == NextCardLine("header", file_lines, pc.line)
           flashcard == HeaderQuestionAnswer(file_lines, n)
       IN  /\ n # 0
           /\ SyncCard(d, n, flashcard, flashcard.answer_end_line)

\* MDFile.import_inline_question_answer: the loop body for the next "- Question" line
import_inline_question_answer ==
    /\ pc.phase = "inline"
    /\ LET d == pc.doc
           file_lines == mdfiles[d].file_lines
           n == NextCardLine("inline", file_lines, pc.line)
           flashcard == InlineQuestionAnswer(file_lines, n)
       IN  /\ n # 0
           /\ SyncCard(d, n, flashcard, flashcard.answer_end_line)

\* a main that calls import_header_question_answer before import_definitions
NextImporterHeaderFirst ==
    /\ pc.phase \in {"clozes", "definitions", "header", "inline"}
    /\ NextCardLine(pc.phase, mdfiles[pc.doc].file_lines, pc.line) = 0
    /\ pc' = [pc EXCEPT !.line = 1,
                        !.phase = CASE pc.phase = "clozes" -> "header"
                                    [] pc.phase = "header" -> "definitions"
                                    [] pc.phase = "definitions" -> "inline"
                                    [] pc.phase = "inline" -> "export"]
    /\ UNCHANGED <<disk, store, decks, nextId, mdfiles, deck_names, run, log, hist, probe>>

\* main: an importer's loop has no further flashcard, the next call of main follows
NextImporter ==
    /\ pc.phase \in {"clozes", "definitions", "header", "inline"}
    /\ NextCardLine(pc.phase, mdfiles[pc.doc].file_lines, pc.line) = 0
    /\ pc' = [pc EXCEPT !.line = 1,
                        !.phase = CASE pc.phase = "clozes" -> "definitions"
                                    [] pc.phase = "definitions" -> "header"
                                    [] pc.phase = "header" -> "inline"
                                    [] pc.phase = "inline" -> "export"]
    /\ UNCHANGED <<disk, store, decks, nextId, mdfiles, deck_names, run, log, hist, probe>>

\* the identifiers embedded as markers in the documents on disk
EmbeddedIds ==
    UNION {{MarkerId(disk[d], i) : i \in {k \in 1..Len(disk[d]) : MarkerAt(disk[d], k)}} :
              d \in DocIds}

\* an export that, after the last document, deletes the notes of the store
\* whose identifier no document embeds, without asking
export_file_deleting ==
    /\ pc.phase = "export"
    /\ LET d == pc.doc
           new_content == JoinLines(mdfiles[d].updated_file_lines)
       IN  /\ disk' = IF mdfiles[d].file_content # new_content
                      THEN [disk EXCEPT ![d] = new_content] ELSE disk
           /\ log' = (IF mdfiles[d].file_content # new_content
                      THEN Append(log, [action |-> "write_text", doc |-> d, id |-> None])
                      ELSE log)
                     \o (IF d < NumDocs THEN <<>>
                         ELSE <<[action |-> "deleteNotes", doc |-> 0, id |-> None]>>)
           /\ store' = IF d < NumDocs THEN store
                       ELSE {n \in store : n.id \in EmbeddedIds}
           /\ pc' = IF d < NumDocs
                    THEN [phase |-> "clozes", doc |-> d + 1, line |-> 1, cause |-> "none"]
                    ELSE [phase |-> "done", doc |-> d, line |-> 0, cause |-> "none"]
    /\ UNCHANGED <<decks, nextId, mdfiles, deck_names, run, hist, probe>>

\* MDFile.export_file, then the next document of main's loop
export_file ==
    /\ pc.phase = "export"
    /\ LET d == pc.doc
           new_content == JoinLines(mdfiles[d].updated_file_lines)
       IN  /\ disk' = IF mdfiles[d].file_content # new_content
                      THEN [disk EXCEPT ![d] = new_content] ELSE disk
           /\ log' = IF mdfiles[d].file_content # new_content
                     THEN Append(log, [action |-> "write_text", doc |-> d, id |-> None])
                     ELSE log
           /\ pc' = IF d < NumDocs
                    THEN [phase |-> "clozes", doc |-> d + 1, line |-> 1, cause |-> "none"]
                    ELSE [phase |-> "done", doc |-> d, line |-> 0, cause |-> "none"]
    /\ UNCHANGED <<store, decks, nextId, mdfiles, deck_names, run, hist, probe>>

\* the process is stopped between two steps of main: what it held in memory is lost
Stop ==
    /\ pc.phase \in {"clozes", "definitions", "header", "inline", "export"}
    /\ pc' = [phase |-> "halted", doc |-> pc.doc, line |-> 0, cause |-> "stopped"]
    /\ mdfiles' = [d \in DocIds |-> MDFile(<<>>)]
    /\ deck_names' = <<>>
    /\ log' = <<>>
    /\ hist' = [hist EXCEPT !.last = NoCall]
    /\ UNCHANGED <<disk, store, decks, nextId, run, probe>>

Next ==
    \/ Boot
    \/ import_clozes
    \/ import_definitions
    \/ import_header_question_answer
    \/ import_inline_question_answer
    \/ NextImporter
    \/ export_file
    \/ Stop

Spec == Init /\ [][Next]_vars

(***************************************************************************)
(* Properties                                                              *)
(***************************************************************************)
RequestsOf(actions) == {i \in 1..Len(log) : log[i].action \in actions}

C2_SecondRunLeavesDocuments ==
    (hist.prevComplete /\ pc.phase = "done") => disk = hist.diskAtBoot

\* C3: when the remote call for a flashcard raises, the identifiers obtained
\* for the earlier flashcards of that document are in the file on storage.
C3_IdentifiersPersistedBeforeFailure ==
    (pc.phase = "halted" /\ pc.cause = "remote") =>
        \A o \in hist.obtained :
            o.doc = pc.doc => Contains(disk[o.doc], Marker(o.id))

\* C4: over all runs, stopped or complete, no flashcard content is created
\* twice in the store, and after a complete run every identifier obtained
\* names exactly one record.
C4_NoSecondRecord ==
    /\ \A a, b \in hist.created :
           (a.model = b.model /\ a.front = b.front) => a.id = b.id
    /\ pc.phase = "done" =>
           \A o \in hist.obtained : Cardinality({n \in store : n.id = o.id}) = 1

C4_Witness ==
    /\ hist.interrupted
    /\ pc.phase = "done"
    /\ RequestsOf({"findNotes"}) # {}
    /\ hist.created # {}

\* C5: every identifier returned by an import of a run is a marker of the
\* document that export_file has written.
C5_MarkersSurviveExport ==
    \A o \in hist.obtained :
        (pc.phase = "done" \/ (pc.phase # "halted" /\ pc.doc > o.doc)) =>
            Contains(disk[o.doc], Marker(o.id))

\* C6: a create refused as a duplicate whose fallback search gives exactly
\* one match does not raise and returns that match.
C6_SingleMatchReturned ==
    (hist.last.dup /\ Len(hist.last.matches) = 1) =>
        /\ ~hist.last.raised
        /\ hist.last.value = hist.last.matches[1]
        /\ pc.phase # "halted"

C6_Witness ==
    /\ hist.last.dup
    /\ Len(hist.last.matches) = 1
    /\ hist.last.kind = "Header"

\* C7: a create refused as a duplicate whose fallback search gives no match
\* or several raises: nothing is returned, none of the matches is picked, the
\* program halts and the buffer line of the flashcard is left as it was.
C7_AmbiguousDuplicateRaises ==
    (hist.last.dup /\ Len(hist.last.matches) # 1) =>
        /\ hist.last.raised
        /\ hist.last.value = None
        /\ pc.phase = "halted"
        /\ pc.cause = "ambiguous"
        /\ hist.last.after = hist.last.before
        /\ \A i \in 1..Len(hist.last.matches) : hist.last.value # hist.last.matches[i]
        /\ mdfiles[hist.last.doc].updated_file_lines[hist.last.line] = hist.last.before

C7_Witness ==
    /\ hist.last.dup
    /\ Len(hist.last.matches) = 2
    /\ pc.phase = "halted"

\* C8: a flashcard whose identifier has no record in the store is created:
\* an addNote request is sent and nothing is raised.
C8_StaleIdentifierCreates ==
    hist.last.stale => (hist.last.request = "addNote" /\ ~hist.last.raised)

\* C9: decoding the line that new_line_content returns gives back the text
\* it was given and the identifier.
C9_MarkerRoundTrip ==
    (hist.last.kind # "none" /\ ~hist.last.raised) =>
        split_anki_id(hist.last.after) = <<hist.last.text, hist.last.value>>

\* C10: new_line_content with the identifier the flashcard's text already
\* carries returns the line unchanged.
C10_EncodeIdempotent ==
    (hist.last.kind # "none" /\ ~hist.last.raised /\ hist.last.had_id = hist.last.value) =>
        hist.last.after = hist.last.text

(***************************************************************************)
(* Recognizers, encoders and legacy importers called on their own          *)
(*                                                                         *)
(* A second specification: the process of main does not run; each action   *)
(* is one call of a function of the program on arguments drawn from        *)
(* bounded sets, and probe holds the arguments and the outcome.            *)
(***************************************************************************)
mainvars == <<disk, store, decks, nextId, mdfiles, deck_names, pc, run, log, hist>>

ProbeInit ==
    /\ disk = [d \in DocIds |-> <<>>]
    /\ store = {}
    /\ decks = <<>>
    /\ nextId = 1
    /\ mdfiles = [d \in DocIds |-> MDFile(<<>>)]
    /\ deck_names = <<>>
    /\ pc = [phase |-> "probe", doc |-> 0, line |-> 0, cause |-> "none"]
    /\ run = 0
    /\ log = <<>>
    /\ hist = [prevComplete |-> FALSE, interrupted |-> FALSE, diskAtBoot |-> disk, diskAtStart |-> disk,
               last |-> NoCall, obtained |-> {}, created |-> {}]
    /\ probe = NoProbe

\* the identifiers a call is given
ProbeIds == {NewId(1), NewId(2)}

\* the number of matches of \^anki-\d{13} in s
CountMarkers(s) == Cardinality({i \in 1..Len(s) : MarkerAt(s, i)})

\* the last lines of a span that an identifier is encoded onto
EncodeTexts ==
    { <<"a">>, <<"a", " ", "b">>, Fence, Fence \o <<" ">>, <<"\t">> \o Fence,
      Fence \o <<"p", "y">>, <<"x", " ">> \o Fence, <<>> }

\* new_line_content called with self.anki_id = anki_id on a buffer whose line
\* line_number is text, carrying no marker, the marker of an identifier at its
\* end, or (multi-line classes) that marker on the line below
call_new_line_content ==
    /\ probe = NoProbe
    /\ \E kind \in {"Cloze", "Header"}, text \in EncodeTexts,
          carried \in {"none", "inline", "below"}, I \in ProbeIds, anki_id \in ProbeIds,
          rest \in {<<>>, <<<<"n">>>>} :
          LET first == IF carried = "inline" THEN text \o <<" ">> \o Marker(I) ELSE text
              file_lines == <<first>> \o (IF carried = "below" THEN <<Marker(I)>> ELSE <<>>)
                                \o rest
          IN  /\ kind = "Cloze" => carried # "below"
              /\ probe' = [op |-> "new_line_content", kind |-> kind, text |-> text,
                           file_lines |-> file_lines, line_number |-> 1,
                           carried |-> IF carried = "none" THEN None ELSE I,
                           where |-> carried, anki_id |-> anki_id,
                           result |-> new_line_content(kind, file_lines, 1, anki_id)]
    /\ UNCHANGED mainvars

\* the deepest heading a Question block is given
MaxDepth == 2

RECURSIVE Hashes(_)
Hashes(n) == IF n <= 0 THEN <<>> ELSE <<"#">> \o Hashes(n - 1)

\* a heading line of the given depth
Heading(depth, title) == Hashes(depth) \o <<" ">> \o title

QText == <<"Q", " ", "t", "e", "x", "t">>

AText == <<"A", " ", "t", "e", "x", "t">>

NextTitle == <<"N", "e", "x", "t">>

\* the bodies of a question
QuestionBodies == {<<QText>>, <<QText, <<"p">>>>}

\* the bodies of an answer under a Question heading of depth D: plain lines,
\* a sub-heading (deeper than D) with its text, a fenced code block holding a
\* line that starts with a hash
AnswerBodies(D) ==
    { <<AText>>,
      <<AText, <<"b">>>>,
      <<AText, Heading(D + 1, <<"S">>), <<"b">>>>,
      <<AText, Fence, <<"#", " ", "c">>, Fence>> }

\* what follows the answer: nothing (end of the document), a heading of depth
\* <= D as the final line or followed by text, a marker line, or another block
HeaderFollowers(D) ==
    {<<>>}
      \cup {<<Heading(d, NextTitle)>> : d \in 1..D}
      \cup {<<Heading(d, NextTitle), <<"t">>>> : d \in 1..D}
      \cup {<<Marker(NewId(1))>>, <<Marker(NewId(1)), <<"t">>>>}
      \cup {<<Heading(D, QuestionWord), <<"v">>, Heading(D, AnswerWord), <<"w">>>>}

\* a Question heading with its text and no Answer heading of its own
HeaderPrefixes(D) == {<<>>, <<Heading(D, QuestionWord), <<"u">>>>}

\* the flashcards the loop of import_header_question_answer constructs from
\* line from on, up to the first constructor that raises
RECURSIVE HeaderCards(_, _)
HeaderCards(file_lines, from) ==
    LET n == NextCardLine("header", file_lines, from)
    IN  IF n = 0 THEN <<>>
        ELSE LET card == HeaderQuestionAnswer(file_lines, n)
             IN  IF card.raised THEN <<card>>
                 ELSE <<card>> \o HeaderCards(file_lines, n + 1)

\* the constructors of import_header_question_answer on a document made of a
\* Question heading of depth D, a question body, the Answer heading, an answer
\* body, and what follows
construct_header_flashcards ==
    /\ probe = NoProbe
    /\ \E D \in 1..MaxDepth :
       \E prefix \in HeaderPrefixes(D), qbody \in QuestionBodies,
          abody \in AnswerBodies(D), follower \in HeaderFollowers(D) :
          LET file_lines == prefix \o <<Heading(D, QuestionWord)>> \o qbody
                                \o <<Heading(D, AnswerWord)>> \o abody \o follower
          IN  probe' = [op |-> "header", D |-> D, prefix |-> prefix, qbody |-> qbody,
                        abody |-> abody, follower |-> follower, file_lines |-> file_lines,
                        cards |-> HeaderCards(file_lines, 1)]
    /\ UNCHANGED mainvars

\* the indentation of an Inline-list Question item: none, one space, one tab
InlineIndents == {<<>>, <<" ">>, <<"\t">>}

\* an item of a list, one level below the Question item
Child(indent, text) == indent \o <<"\t", "-", " ">> \o text

\* what follows the answer of an Inline-list block: nothing, an item at the
\* Question's indentation as the final line or followed by text, a marker line
InlineFollowers(indent) ==
    { <<>>,
      <<indent \o <<"-", " ", "z">>>>,
      <<indent \o <<"-", " ", "z">>, <<"t">>>>,
      <<Marker(NewId(1))>>,
      <<indent \o DashQuestion, Child(indent, <<"v">>), indent \o DashAnswer,
        Child(indent, <<"w">>)>> }

\* a Question item with its text and no Answer item of its own
InlinePrefixes(indent) == {<<>>, <<indent \o DashQuestion, Child(indent, <<"u">>)>>}

\* the flashcards the loop of import_inline_question_answer constructs from
\* line from on, up to the first constructor that raises
RECURSIVE InlineCards(_, _)
InlineCards(file_lines, from) ==
    LET n == NextCardLine("inline", file_lines, from)
    IN  IF n = 0 THEN <<>>
        ELSE LET card == InlineQuestionAnswer(file_lines, n)
             IN  IF card.raised THEN <<card>>
                 ELSE <<card>> \o InlineCards(file_lines, n + 1)

\* the constructors of import_inline_question_answer on a document made of a
\* Question item, its child items, the Answer item, its child items, and what
\* follows
construct_inline_flashcards ==
    /\ probe = NoProbe
    /\ \E indent \in InlineIndents :
       \E prefix \in InlinePrefixes(indent), follower \in InlineFollowers(indent),
          qbody \in {<<Child(indent, <<"i">>)>>,
                     <<Child(indent, <<"i">>), Child(indent, <<"p">>)>>},
          abody \in {<<Child(indent, <<"j">>)>>,
                     <<Child(indent, <<"j">>), Child(indent, <<"b">>)>>} :
          LET file_lines == prefix \o <<indent \o DashQuestion>> \o qbody
                                \o <<indent \o DashAnswer>> \o abody \o follower
          IN  probe' = [op |-> "inline", indent |-> indent, prefix |-> prefix,
                        qbody |-> qbody, abody |-> abody, follower |-> follower,
                        file_lines |-> file_lines, cards |-> InlineCards(file_lines, 1)]
    /\ UNCHANGED mainvars

(***************************************************************************)
(* Legacy package mankey: EnclosedFlashcard and RemnoteFlashcard           *)
(***************************************************************************)
TagPrefix == <<"#", "f", "l", "a", "s", "h", "c", "a", "r", "d", "-">>

TagRegular == TagPrefix \o <<"r", "e", "g", "u", "l", "a", "r">>

TagReverse == TagPrefix \o <<"r", "e", "v", "e", "r", "s", "e">>

TagMiddle == TagPrefix \o <<"m", "i", "d", "d", "l", "e">>

TagEnd == TagPrefix \o <<"e", "n", "d">>

\* str.split(): the words of a line, separated by runs of whitespace
RECURSIVE Words(_)
Words(line) ==
    IF Len(line) = 0 THEN <<>>
    ELSE IF Head(line) \in Whitespace THEN Words(Tail(line))
    ELSE LET stops == {i \in 1..Len(line) : line[i] \in Whitespace}
             n == IF stops = {} THEN Len(line) + 1 ELSE MinOr0(stops)
         IN  <<SubSeq(line, 1, n - 1)>> \o Words(SubSeq(line, n, Len(line)))

\* word.startswith of the four tags
IsTagWord(word) ==
    \E tag \in {TagRegular, TagReverse, TagMiddle, TagEnd} : StartsWith(word, tag)

\* the words w of ws with IsTagWord(w), each paired with line_number
RECURSIVE TagsOfWords(_, _)
TagsOfWords(ws, line_number) ==
    IF Len(ws) = 0 THEN <<>>
    ELSE (IF IsTagWord(Head(ws)) THEN <<[tag |-> Head(ws), line |-> line_number]>> ELSE <<>>)
             \o TagsOfWords(Tail(ws), line_number)

\* EnclosedFlashcard.get_enclosed_flashcard_tags_and_lines, from line_number on
RECURSIVE get_enclosed_flashcard_tags_and_lines(_, _)
get_enclosed_flashcard_tags_and_lines(file_lines, line_number) ==
    IF line_number > Len(file_lines) THEN <<>>
    ELSE TagsOfWords(Words(file_lines[line_number]), line_number)
             \o get_enclosed_flashcard_tags_and_lines(file_lines, line_number + 1)

enclosed_flashcard_tags(file_lines) ==
    LET found == get_enclosed_flashcard_tags_and_lines(file_lines, 1)
    IN  [i \in 1..Len(found) |-> found[i].tag]

\* the test has_enclosed_flashcards makes of one triple
ValidTriple(start, middle, end) ==
    /\ start \in {TagRegular, TagReverse}
    /\ middle = TagMiddle
    /\ end = TagEnd

\* EnclosedFlashcard.has_enclosed_flashcards: zip of three references to one
\* iterator gives the triples (tags[3k+1], tags[3k+2], tags[3k+3]) for the
\* k with 3k+3 <= len(tags) and drops the tags left over
has_enclosed_flashcards(tags) ==
    IF Len(tags) = 0 THEN [value |-> FALSE, printed |-> FALSE]
    ELSE IF ~(\A k \in 0..((Len(tags) \div 3) - 1) :
                 ValidTriple(tags[3 * k + 1], tags[3 * k + 2], tags[3 * k + 3]))
    THEN [value |-> FALSE, printed |-> TRUE]
    ELSE [value |-> TRUE, printed |-> FALSE]

\* the most tag words a document holds
MaxTags == 4

\* the words that start with a tag: the four tags and a tag with a suffix
TagWords == {TagRegular, TagReverse, TagMiddle, TagEnd, TagEnd \o <<"s">>}

\* a document with the given tag words: text and one tag on every line, and a
\* last line of text
EnclosedDocument(ts) ==
    [i \in 1..(Len(ts) + 1) |->
        IF i <= Len(ts) THEN <<"t", " ">> \o ts[i] ELSE <<"z">>]

call_has_enclosed_flashcards ==
    /\ probe = NoProbe
    /\ \E n \in 0..MaxTags : \E ts \in [1..n -> TagWords] :
          LET file_lines == EnclosedDocument(ts)
              tags == enclosed_flashcard_tags(file_lines)
              has == has_enclosed_flashcards(tags)
          IN  probe' = [op |-> "has_enclosed_flashcards", file_lines |-> file_lines,
                        tags |-> tags, value |-> has.value, printed |-> has.printed]
    /\ UNCHANGED mainvars

\* str.split(sep) for a separator of at least one character
RECURSIVE SplitOn(_, _)
SplitOn(s, sep) ==
    LET p == Find(s, sep, 1)
    IN  IF p = 0 THEN <<s>>
        ELSE <<SubSeq(s, 1, p - 1)>> \o SplitOn(SubSeq(s, p + Len(sep), Len(s)), sep)

Colons2 == <<":", ":">>

Colons3 == <<":", ":", ":">>

\* the test of import_remnote_flashcards on a line
IsRemnoteLine(line_content) ==
    Contains(line_content, Colons2) \/ Contains(line_content, Colons3)

\* RemnoteFlashcard.import_remnote_flashcards, the loop body up to the call of
\* import_flashcard: its arguments, or the ValueError of unpacking a split
\* that does not give two parts
remnote_flashcard(line_content) ==
    LET triple == Contains(line_content, Colons3)
        parts == SplitOn(line_content, IF triple THEN Colons3 ELSE Colons2)
        card_model == IF triple THEN "Basic (and reversed card)" ELSE "Basic"
    IN  IF Len(parts) # 2
        THEN [raised |-> TRUE, question |-> None, answer |-> None,
              card_model |-> card_model, anki_id |-> None]
        ELSE [raised |-> FALSE, question |-> parts[1],
              answer |-> split_anki_id(parts[2])[1],
              card_model |-> card_model, anki_id |-> split_anki_id(parts[2])[2]]

\* the lines import_remnote_flashcards is given
RemnoteLines ==
    LET texts == { <<"q">> \o sep \o <<"a">> :
                      sep \in {Colons2, Colons3, <<" ">> \o Colons2 \o <<" ">>,
                               <<" ">> \o Colons3 \o <<" ">>} }
                   \cup {<<"q">> \o Colons2 \o <<"a">> \o Colons2 \o <<"b">>}
    IN  texts \cup {t \o <<" ">> \o Marker(I) : t \in texts, I \in ProbeIds}

call_import_remnote_flashcards ==
    /\ probe = NoProbe
    /\ \E line_content \in RemnoteLines :
          /\ IsRemnoteLine(line_content)
          /\ probe' = [op |-> "remnote", line_content |-> line_content,
                       card |-> remnote_flashcard(line_content)]
    /\ UNCHANGED mainvars

\* the lines the two bold-text importers are shown
BoldLines ==
    LET texts == { ClozeLine,
                   DefinitionLine,
                   <<"-", " ">> \o DefinitionLine,
                   <<" ", "-">> \o DefinitionLine \o <<" ">>,
                   <<"x", " ">> \o DefinitionLine,
                   DefinitionLine \o <<" ">> \o DefinitionLine,
                   <<"-", "-", " ">> \o DefinitionLine,
                   Stars \o <<"w">> \o Stars,
                   Stars \o <<"w", ":">> \o Stars,
                   <<"w", ":", " ", "d">>,
                   <<>> }
    IN  texts \cup {t \o <<" ">> \o Marker(NewId(1)) : t \in texts}

\* the line numbers at which the loop of an importer constructs a flashcard
RECURSIVE ImportedLines(_, _, _)
ImportedLines(phase, file_lines, from) ==
    LET n == NextCardLine(phase, file_lines, from)
    IN  IF n = 0 THEN {} ELSE {n} \cup ImportedLines(phase, file_lines, n + 1)

\* MDFile.import_clozes followed by MDFile.import_definitions on one file
call_import_clozes_definitions ==
    /\ probe = NoProbe
    /\ \E l1 \in BoldLines, l2 \in BoldLines :
          LET file_lines == <<l1, l2>>
          IN  probe' = [op |-> "bold", file_lines |-> file_lines,
                        clozes |-> ImportedLines("clozes", file_lines, 1),
                        definitions |-> ImportedLines("definitions", file_lines, 1)]
    /\ UNCHANGED mainvars

MaxClozes == 3

LongCloze == 11

ClozeWords == {<<"x">>, <<"y", "z">>}

\* the sequences of bold words a line is written with
ClozeWordSeqs ==
    UNION {[1..n -> ClozeWords] : n \in 1..MaxClozes}
        \cup {[i \in 1..n |-> <<"x">>] : n \in (LongCloze - 1)..LongCloze}

\* the words joined by single spaces, each between opening and closing text
RECURSIVE ClozeBody(_, _, _)
ClozeBody(words, k, numbered) ==
    IF k > Len(words) THEN <<>>
    ELSE (IF k > 1 THEN <<" ">> ELSE <<>>)
             \o (IF numbered THEN ClozeOpen(k) ELSE Stars)
             \o words[k]
             \o (IF numbered THEN ClozeClose ELSE Stars)
             \o ClozeBody(words, k + 1, numbered)

ClozePrefixes == {<<>>, <<"T", " ">>, <<"-", " ">>}

\* Cloze.format_clozue on a line with Len(words) pairs of asterisks
call_format_clozue ==
    /\ probe = NoProbe
    /\ \E prefix \in ClozePrefixes, words \in ClozeWordSeqs,
          suffix \in {<<>>, <<".">>, <<" ">> \o Marker(NewId(1))} :
          LET string == prefix \o ClozeBody(words, 1, FALSE) \o suffix
          IN  /\ Len(words) > MaxClozes => (prefix = <<>> /\ suffix = <<>>)
              /\ probe' = [op |-> "format_clozue", prefix |-> prefix, words |-> words,
                        suffix |-> suffix, string |-> string,
                        cloze_string |-> format_clozue(string)]
    /\ UNCHANGED mainvars

\* the list of ClozeFlashcard.clozify
ClozifyPattern ==
    <<<<"{">>, <<"{", "c", "1", ":", ":">>, <<"}">>, <<"}">>,
      <<"{">>, <<"{", "c", "2", ":", ":">>, <<"}">>, <<"}">>,
      <<"{">>, <<"{", "c", "3", ":", ":">>, <<"}">>, <<"}">>,
      <<"{">>, <<"{", "c", "4", ":", ":">>, <<"}">>, <<"}">>,
      <<"{">>, <<"{", "c", "5", ":", ":">>, <<"}">>, <<"}">>,
      <<"{", "c", "6", ":", ":">>, <<"}">>, <<"}">>,
      <<"{", "c", "7", ":", ":">>, <<"}">>, <<"}">>,
      <<"{", "c", "8", ":", ":">>, <<"}">>, <<"}">>>>

\* ClozeFlashcard.clozify(index) for an index inside the list
clozify(index) == ClozifyPattern[index + 1]

\* the test made for every asterisk of the line: the character before the
\* first asterisk of the line (the last character when the line starts with
\* one) is not a backslash
Unescaped(line_content) ==
    LET p == Find(line_content, <<"*">>, 1)
    IN  line_content[IF p = 1 THEN Len(line_content) ELSE p - 1] # "\\"

\* the inner loop of import_cloze_flashcards: for every asterisk of the line
\* the first asterisk left in the output is replaced by
\* clozify(asterisk_number). No entry of the list holds an asterisk, so the
\* k-th replacement falls on the k-th asterisk of the line: the output is
\* the line with its asterisks replaced from left to right.
RECURSIVE clozify_from(_, _)
clozify_from(rest, asterisk_number) ==
    IF Len(rest) = 0 THEN <<>>
    ELSE IF Head(rest) = "*"
    THEN clozify(asterisk_number) \o clozify_from(Tail(rest), asterisk_number + 1)
    ELSE <<Head(rest)>> \o clozify_from(Tail(rest), asterisk_number)

\* the IndexError of clozify outside its list is the field "raised"
clozify_line(line_content) ==
    IF Cardinality({i \in 1..Len(line_content) : line_content[i] = "*"}) > Len(ClozifyPattern)
    THEN [raised |-> TRUE, output |-> line_content]
    ELSE [raised |-> FALSE, output |-> clozify_from(line_content, 0)]

\* ClozeFlashcard.import_cloze_flashcards, the loop body up to the call of
\* import_cloze_flashcard: the question and the identifier it is called with
legacy_cloze(line_content) ==
    LET r == IF Unescaped(line_content)
             THEN clozify_line(line_content)
             ELSE [raised |-> FALSE, output |-> line_content]
        q1 == Strip(r.output)
        q2 == IF StartsWith(q1, <<"-">>) \/ StartsWith(q1, <<"#">>) THEN Strip(Tail(q1)) ELSE q1
    IN  [raised |-> r.raised,
         question |-> IF r.raised THEN None ELSE split_anki_id(q2)[1],
         anki_id |-> IF r.raised THEN None ELSE split_anki_id(q2)[2]]

MaxBlanks == 8

\* a line of b blanks, each the word x between two pairs of asterisks
BlankWords(b) == [k \in 1..b |-> <<"x">>]

call_import_cloze_flashcards ==
    /\ probe = NoProbe
    /\ \E b \in 1..MaxBlanks, prefix \in {<<>>, <<"-", " ">>, <<"\\">>} :
          LET line_content == prefix \o ClozeBody(BlankWords(b), 1, FALSE)
          IN  /\ Contains(line_content, Stars)
              /\ probe' = [op |-> "legacy_cloze", blanks |-> b, prefix |-> prefix,
                           line_content |-> line_content,
                           card |-> legacy_cloze(line_content)]
    /\ UNCHANGED mainvars

(***************************************************************************)
(* Media                                                                   *)
(***************************************************************************)
\* AnkiConnector.store_media_file and the loop of BaseFlashcard.store_media:
\* for every image of the list the file is read first (FileNotFoundError
\* when it is not on disk, the field "raised"), then it is uploaded and
\* cached unless the cache holds its name
RECURSIVE store_media_loop(_, _, _)
store_media_loop(images, on_disk, media_files) ==
    IF Len(images) = 0
    THEN [raised |-> FALSE, uploads |-> <<>>, media_files |-> media_files]
    ELSE IF Head(images) \notin on_disk
    THEN [raised |-> TRUE, uploads |-> <<>>, media_files |-> media_files]
    ELSE LET known == InSeq(Head(images), media_files)
             rest == store_media_loop(Tail(images), on_disk,
                                      IF known THEN media_files
                                      ELSE Append(media_files, Head(images)))
         IN  [raised |-> rest.raised,
              uploads |-> (IF known THEN <<>> ELSE <<Head(images)>>) \o rest.uploads,
              media_files |-> rest.media_files]

\* the image names a document may refer to
ImageNames == {<<"a">>, <<"d", "/", "a">>}

ImageRef(name) == ImgOpen \o name \o ImgClose

\* the files the directory of the documents may hold
DiskNames == ImageNames \cup {<<"a", "\">">>}

\* the elements of a sequence that are not in a set, in order
RECURSIVE Missing(_, _)
Missing(names, on_disk) ==
    IF Len(names) = 0 THEN <<>>
    ELSE (IF Head(names) \in on_disk THEN <<>> ELSE <<Head(names)>>)
             \o Missing(Tail(names), on_disk)

\* an image reference inside the brackets of another
NestedRef == ImgOpen \o ImageRef(<<"a">>) \o ImgClose

ImageTexts == {<<>>, NestedRef} \cup {ImageRef(name) : name \in ImageNames}

\* the lines of a document that holds one flashcard of the kind, with the
\* text img at the end of its last line
MediaDocument(kind, img) ==
    CASE kind = "Cloze" -> <<ClozeLine \o <<" ">> \o img>>
      [] kind = "Definition" -> <<DefinitionLine \o <<" ">> \o img>>
      [] kind = "Header" ->
             <<HeaderQuestionLine, <<"q">>, HeaderAnswerLine, <<"r", " ">> \o img>>
      [] kind = "Inline" ->
             <<InlineQuestionLine, <<"\t", "-", " ", "i">>, InlineAnswerLine,
               <<"\t", "-", " ", "j", " ">> \o img>>

\* the flashcard the importer of the kind constructs on the document
MediaCard(kind, file_lines) ==
    CASE kind = "Cloze" -> Cloze(file_lines[1])
      [] kind = "Definition" -> Definition(file_lines[1])
      [] kind = "Header" -> HeaderQuestionAnswer(file_lines, 1)
      [] kind = "Inline" -> InlineQuestionAnswer(file_lines, 1)

\* import_flashcard of a flashcard of the MDFile pipeline, up to the request
\* for the note: store_media on the images the class passes, create_deck,
\* then the request; nothing is printed or logged on the way
import_flashcard_media(card, file_lines, on_disk, cached) ==
    LET media_files == IF cached /\ Len(card.media) > 0 THEN <<card.media[1]>> ELSE <<>>
        res == store_media_loop(card.media, on_disk, media_files)
    IN  [op |-> "store_media", kind |-> card.kind, file_lines |-> file_lines,
         references |-> image_names(JoinLines(file_lines)),
         decisions |-> card.media,
         on_disk |-> on_disk,
         missing |-> Missing(image_names(JoinLines(file_lines)), on_disk),
         media_files |-> media_files,
         raised |-> card.raised \/ res.raised,
         uploads |-> res.uploads,
         synced |-> ~card.raised /\ ~res.raised,
         printed |-> <<>>]

call_store_media ==
    /\ probe = NoProbe
    /\ \E kind \in {"Cloze", "Definition", "Header", "Inline"}, img \in ImageTexts,
          on_disk \in SUBSET DiskNames, cached \in BOOLEAN :
          /\ cached => img = NestedRef
          /\ probe' = import_flashcard_media(MediaCard(kind, MediaDocument(kind, img)),
                                             MediaDocument(kind, img), on_disk, cached)
    /\ UNCHANGED mainvars

\* the end of the match of !\[.*?\]\((.*?)\) that starts at p (the position of
\* its closing parenthesis) and the start of its group, 0 if none
LegacyImage(s, p) ==
    IF ~StartsWithAt(s, p, <<"!", "[">>) THEN [open |-> 0, close |-> 0]
    ELSE LET opens == {q \in (p + 2)..Len(s) :
                          /\ StartsWithAt(s, q, <<"]", "(">>)
                          /\ NoNewline(s, p + 2, q - 1)
                          /\ \E r \in (q + 2)..Len(s) :
                                 s[r] = ")" /\ NoNewline(s, q + 2, r - 1)}
             q == MinOr0(opens)
         IN  IF q = 0 THEN [open |-> 0, close |-> 0]
             ELSE [open |-> q + 2, close |-> Find(s, <<")">>, q + 2)]

\* re.finditer(IMAGE_REGEX, line_content): group 1 of every match, left to right
RECURSIVE legacy_image_names(_)
legacy_image_names(s) ==
    IF Len(s) = 0 THEN <<>>
    ELSE LET m == LegacyImage(s, 1)
         IN  IF m.close # 0
             THEN <<SubSeq(s, m.open, m.close - 1)>>
                      \o legacy_image_names(SubSeq(s, m.close + 1, Len(s)))
             ELSE legacy_image_names(Tail(s))

Attachments == <<"zzz_attachments", "/">>

\* relative_image_path of import_images: the path of the image below input_dir
relative_image_path(image_name, deck) ==
    IF StartsWith(image_name, Attachments) THEN image_name
    ELSE Attachments \o deck \o <<"/">> \o image_name

\* simple_name of import_images
simple_name(relative) == ReplaceAll(relative, <<"/">>, <<"_">>)

\* SharedFlashcard.import_images: the storeMediaFile requests and the lines
\* printed for the images of the list; the legacy store_media_file has no cache
RECURSIVE import_images(_, _, _)
import_images(images, deck, on_disk) ==
    IF Len(images) = 0 THEN [uploads |-> <<>>, printed |-> <<>>]
    ELSE LET path == relative_image_path(Head(images), deck)
             rest == import_images(Tail(images), deck, on_disk)
         IN  IF path \in on_disk
             THEN [uploads |-> <<simple_name(path)>> \o rest.uploads, printed |-> rest.printed]
             ELSE [uploads |-> rest.uploads, printed |-> <<path>> \o rest.printed]

LegacyImageNames == {<<"a">>, Attachments \o <<"a">>, <<"s", "/", "a">>}

LegacyRef(name) == <<"!", "[", "p", "]", "(">> \o name \o <<")">>

LegacyDeck == <<"k">>

\* the content of an enclosed flashcard with at most two image references
LegacyContents ==
    {<<"q", " ">> \o r1 \o <<" ">> \o r2 :
        r1 \in {LegacyRef(n) : n \in LegacyImageNames},
        r2 \in {<<>>} \cup {LegacyRef(n) : n \in LegacyImageNames}}

\* EnclosedFlashcard.parse_enclosed_flashcard up to the return of import_images
call_import_images ==
    /\ probe = NoProbe
    /\ \E line_content \in LegacyContents,
          on_disk \in SUBSET {relative_image_path(n, LegacyDeck) : n \in LegacyImageNames} :
          LET images == legacy_image_names(line_content)
              paths == [i \in 1..Len(images) |-> relative_image_path(images[i], LegacyDeck)]
              res == import_images(images, LegacyDeck, on_disk)
          IN  probe' = [op |-> "import_images", line_content |-> line_content,
                        references |-> images,
                        on_disk |-> on_disk,
                        missing |-> [i \in 1..Len(Missing(paths, on_disk)) |->
                                        simple_name(Missing(paths, on_disk)[i])],
                        raised |-> FALSE,
                        uploads |-> res.uploads,
                        synced |-> TRUE,
                        printed |-> res.printed]
    /\ UNCHANGED mainvars

(***************************************************************************)
(* AnkiConnector.invoke                                                    *)
(***************************************************************************)
DuplicateText == "cannot create note because it is a duplicate"

\* the error value of the JSON null
Null == "null"

\* the responses of the store: JSON objects over these field names; a field
\* the object lacks is outside DOMAIN
ResponseFields == {"error", "result", "extra"}

ErrorValues == {Null, DuplicateText, "deck was not found"}

Responses2 ==
    UNION {[fs -> ErrorValues \cup {"v"}] : fs \in SUBSET ResponseFields}

\* the chain of tests of invoke: the error message, or Null when the result
\* is returned
error_message(response) ==
    IF Cardinality(DOMAIN response) # 2
    THEN "response has an unexpected number of fields"
    ELSE IF "error" \notin DOMAIN response
    THEN "response is missing required error field"
    ELSE IF "result" \notin DOMAIN response
    THEN "response is missing required result field"
    ELSE response["error"]

\* AnkiConnector.invoke of update_flashcards.py, after the response is read
invoke(response) ==
    LET m == error_message(response)
    IN  IF m = Null
        THEN [returned |-> TRUE, result |-> response["result"], raised |-> "none", message |-> Null]
        ELSE IF m = DuplicateText
        THEN [returned |-> FALSE, result |-> Null, raised |-> "DuplicateNoteError",
              message |-> Null]
        ELSE [returned |-> FALSE, result |-> Null, raised |-> "ValueError", message |-> m]

\* AnkiConnector.invoke of mankey/anki_connector.py, after the response is read
legacy_invoke(response) ==
    LET m == error_message(response)
    IN  IF m = Null
        THEN [returned |-> TRUE, result |-> response["result"], raised |-> "none", message |-> Null]
        ELSE [returned |-> FALSE, result |-> Null, raised |-> "ValueError", message |-> m]

call_invoke ==
    /\ probe = NoProbe
    /\ \E response \in Responses2, connector \in {"update_flashcards", "mankey"} :
          /\ "error" \in DOMAIN response => response["error"] \in ErrorValues
          /\ \A f \in DOMAIN response \ {"error"} : response[f] = "v"
          /\ probe' = [op |-> "invoke", connector |-> connector, response |-> response,
                       outcome |-> IF connector = "mankey" THEN legacy_invoke(response)
                                   ELSE invoke(response)]
    /\ UNCHANGED mainvars

(***************************************************************************)
(* The four importers of MDFile on one document                            *)
(***************************************************************************)
GrammarKinds == {"Cloze", "Definition", "Header", "Inline"}

\* one instance of a grammar
GrammarInstance(kind) ==
    CASE kind = "Cloze" -> <<ClozeLine>>
      [] kind = "Definition" -> <<DefinitionLine>>
      [] kind = "Header" -> <<HeaderQuestionLine, <<"q">>, HeaderAnswerLine, <<"r">>>>
      [] kind = "Inline" -> InlineBlock

\* the orders in which a document holds one instance of each grammar
GrammarOrders ==
    {order \in [1..4 -> GrammarKinds] : \A i, j \in 1..4 : order[i] = order[j] => i = j}

\* the instances in the given order; a Header block that is not the last
\* instance is closed by a heading of its depth
GrammarSegments(order) ==
    [i \in 1..4 |->
        GrammarInstance(order[i])
            \o (IF order[i] = "Header" /\ i < 4 THEN <<<<"#", " ", "N">>>> ELSE <<>>)]

\* the line numbers of the instance of a grammar in the document
InstanceLines(order, kind) ==
    LET i == CHOOSE k \in 1..4 : order[k] = kind
        first == Len(Flatten(SubSeq(GrammarSegments(order), 1, i - 1))) + 1
    IN  first..(first + Len(GrammarInstance(kind)) - 1)

\* the loops of import_clozes, import_definitions, import_header_question_answer
\* and import_inline_question_answer on one document: the lines and the
\* flashcards for which each loop calls import_flashcard
call_importers ==
    /\ probe = NoProbe
    /\ \E order \in GrammarOrders :
          LET file_lines == Flatten(GrammarSegments(order))
          IN  probe' = [op |-> "importers", order |-> order, file_lines |-> file_lines,
                        clozes |-> ImportedLines("clozes", file_lines, 1),
                        definitions |-> ImportedLines("definitions", file_lines, 1),
                        header |-> HeaderCards(file_lines, 1),
                        inline |-> InlineCards(file_lines, 1)]
    /\ UNCHANGED mainvars

(***************************************************************************)
(* Legacy package mankey: the loops of the importers and write_file        *)
(*                                                                         *)
(* One run of an importer on one file.  Between two steps the program is   *)
(* about to call import_flashcard (import_cloze_flashcard for clozes): a   *)
(* step is that call, what the loop does with its result, write_file, and  *)
(* the loop up to the next call.  The files hold no image.                 *)
(***************************************************************************)
LegacyImporters ==
    {"cloze", "enclosed", "remnote", "question_answer", "question_answer_alt"}

\* SharedFlashcard.file_lines: file.read().splitlines()
splitlines(s) ==
    IF Len(s) = 0 THEN <<>>
    ELSE IF s[Len(s)] = "\n" THEN SplitLines(SubSeq(s, 1, Len(s) - 1))
    ELSE SplitLines(s)

\* a write_file that leaves the file as it is
write_file_nothing(file_lines) == probe.disk

\* SharedFlashcard.write_file: the content the file gets
write_file(file_lines) == JoinLines(file_lines)

\* str.lstrip()
LStrip(s) ==
    LET keep == {i \in 1..Len(s) : s[i] \notin Whitespace}
    IN  IF keep = {} THEN <<>> ELSE SubSeq(s, MinOr0(keep), Len(s))

\* str.removeprefix(prefix)
removeprefix(s, prefix) ==
    IF Len(prefix) > 0 /\ StartsWith(s, prefix)
    THEN SubSeq(s, Len(prefix) + 1, Len(s)) ELSE s

\* the local variables of an importer's loop when a run starts; tags is
\* the cached get_enclosed_flashcard_tags_and_lines, seen_question and
\* seen_answer record that the Question and the Answer branch were taken
\* since the last call of import_flashcard
LoopStart(tags) ==
    [question |-> <<>>, answer |-> <<>>, question_mode |-> FALSE, answer_mode |-> FALSE,
     depth |-> 0, code_block |-> FALSE, part_of_note |-> TRUE,
     seen_question |-> FALSE, seen_answer |-> FALSE, tags |-> tags]

NoCard == [question |-> <<>>, answer |-> <<>>, anki_id |-> None]

\* the loop has ended
LoopFinished(st) ==
    [status |-> "finished", line |-> 0, site |-> "none", st |-> st, card |-> NoCard]

\* the loop has raised before it called import_flashcard
LoopRaised(line, st) ==
    [status |-> "raised", line |-> line, site |-> "none", st |-> st, card |-> NoCard]

\* the loop is about to call import_flashcard
LoopRequest(line, site, st, question, answer, anki_id) ==
    [status |-> "request", line |-> line, site |-> site, st |-> st,
     card |-> [question |-> question, answer |-> answer, anki_id |-> anki_id]]

\* RemnoteFlashcard.import_remnote_flashcards from line from on
remnote_loop(file_lines, from, st) ==
    LET n == MinOr0({k \in from..Len(file_lines) : IsRemnoteLine(file_lines[k])})
    IN  IF n = 0 THEN LoopFinished(st)
        ELSE IF remnote_flashcard(file_lines[n]).raised THEN LoopRaised(n, st)
        ELSE LoopRequest(n, "line", st, remnote_flashcard(file_lines[n]).question,
                         remnote_flashcard(file_lines[n]).answer,
                         remnote_flashcard(file_lines[n]).anki_id)

\* ClozeFlashcard.import_cloze_flashcards from line from on
cloze_loop_legacy(file_lines, from, st) ==
    LET n == MinOr0({k \in from..Len(file_lines) : Contains(file_lines[k], Stars)})
    IN  IF n = 0 THEN LoopFinished(st)
        ELSE IF legacy_cloze(file_lines[n]).raised THEN LoopRaised(n, st)
        ELSE LoopRequest(n, "line", st, legacy_cloze(file_lines[n]).question, <<>>,
                         legacy_cloze(file_lines[n]).anki_id)

\* EnclosedFlashcard.parse_enclosed_flashcard for the group of tags that
\* starts at index i: (question, answer, anki_id)
parse_enclosed_flashcard(file_lines, tags, i) ==
    LET line_content == JoinLines(SubSeq(file_lines, tags[i].line, tags[i + 2].line))
        parts == SplitOn(line_content, TagMiddle)
        answer == ReplaceAll(parts[2], tags[i + 2].tag, <<>>)
    IN  [question |-> ReplaceAll(parts[1], tags[i].tag, <<>>),
         answer |-> split_anki_id(answer)[1],
         anki_id |-> split_anki_id(answer)[2],
         parts |-> Len(parts)]

\* EnclosedFlashcard.import_enclosed_flashcards from the group at index i on:
\* a group of fewer than three tags raises IndexError, a text that
\* "#flashcard-middle" does not split in two raises ValueError
enclosed_loop(file_lines, i, st) ==
    IF i > Len(st.tags) THEN LoopFinished(st)
    ELSE IF i + 2 > Len(st.tags) THEN LoopRaised(i, st)
    ELSE IF Len(SplitOn(JoinLines(SubSeq(file_lines, st.tags[i].line, st.tags[i + 2].line)),
                        TagMiddle)) # 2
    THEN LoopRaised(i, st)
    ELSE LoopRequest(i, "group", st,
                     parse_enclosed_flashcard(file_lines, st.tags, i).question,
                     parse_enclosed_flashcard(file_lines, st.tags, i).answer,
                     parse_enclosed_flashcard(file_lines, st.tags, i).anki_id)

\* QuestionAnswerFlashcard.valid_depth
qa_valid_depth(line, number_to_check) ==
    LeadingRun(line, "#") = 0 \/ LeadingRun(line, "#") > number_to_check

\* QuestionAnswerAltFlashcard.valid_depth
alt_valid_depth(line, number_to_check) ==
    LeadingRun(line, "\t") = 0 \/ LeadingRun(line, "\t") > number_to_check

\* the condition of export_card_if_complete
export_due(st, is_last_line) ==
    st.answer_mode /\ (~st.part_of_note \/ is_last_line)

\* the assignments that end export_card_if_complete and the import branch of
\* import_question_answer_alt_flashcards
loop_reset(st) ==
    [st EXCEPT !.question_mode = FALSE, !.answer_mode = FALSE,
               !.question = <<>>, !.answer = <<>>,
               !.seen_question = FALSE, !.seen_answer = FALSE]

\* the Question branch of import_question_answer_flashcards after its call of
\* export_card_if_complete
qa_question_branch(st, line_content) ==
    [st EXCEPT !.question_mode = TRUE, !.answer_mode = FALSE,
               !.depth = Count(line_content, <<"#">>), !.seen_question = TRUE]

\* QuestionAnswerFlashcard.import_question_answer_flashcards from line
\* line_number on, with the variables st, up to the call of import_flashcard
\* in export_card_if_complete: called for a Question line (site "question")
\* or at the end of the loop body (site "end")
RECURSIVE question_answer_loop(_, _, _)
question_answer_loop(file_lines, line_number, st) ==
    IF line_number > Len(file_lines) THEN LoopFinished(st)
    ELSE LET line_content == file_lines[line_number]
             cleaned_line_content == Strip(ReplaceAll(line_content, <<"#">>, <<>>))
             is_last_line == line_number = Len(file_lines)
             s1 == [st EXCEPT
                       !.part_of_note = IF st.code_block THEN @
                                        ELSE qa_valid_depth(line_content, st.depth),
                       !.code_block = IF Contains(line_content, Fence) THEN ~@ ELSE @]
             s2 == IF s1.question_mode
                   THEN [s1 EXCEPT !.question = @ \o <<"\n">> \o line_content]
                   ELSE IF s1.answer_mode /\ s1.part_of_note
                   THEN [s1 EXCEPT !.answer = @ \o <<"\n">> \o line_content]
                   ELSE s1
         IN  IF StartsWith(cleaned_line_content, QuestionWord)
             THEN IF export_due(s1, is_last_line)
                  THEN LoopRequest(line_number, "question", s1, s1.question,
                                   split_anki_id(s1.answer)[1], split_anki_id(s1.answer)[2])
                  ELSE question_answer_loop(file_lines, line_number + 1,
                                            qa_question_branch(s1, line_content))
             ELSE IF StartsWith(cleaned_line_content, AnswerWord)
             THEN question_answer_loop(file_lines, line_number + 1,
                                       [s1 EXCEPT !.question_mode = FALSE,
                                                  !.answer_mode = TRUE,
                                                  !.seen_answer = TRUE])
             ELSE IF export_due(s2, is_last_line)
             THEN LoopRequest(line_number, "end", s2, s2.question,
                              split_anki_id(s2.answer)[1], split_anki_id(s2.answer)[2])
             ELSE question_answer_loop(file_lines, line_number + 1, s2)

\* ready_string of import_question_answer_alt_flashcards
ready_string(line_content, depth, word) ==
    removeprefix(removeprefix(removeprefix(removeprefix(line_content, Tabs(depth)),
                                           <<" ", " ", "-", " ">>),
                              word),
                 <<":", " ">>)

\* question += "\n" + ready_string, or question = ready_string when it is empty
appended(text, ready) ==
    IF Len(text) > 0 THEN text \o <<"\n">> \o ready ELSE ready

\* QuestionAnswerAltFlashcard.import_question_answer_alt_flashcards from line
\* line_number on, with the variables st, up to the call of import_flashcard
RECURSIVE question_answer_alt_loop(_, _, _)
question_answer_alt_loop(file_lines, line_number, st) ==
    IF line_number > Len(file_lines) THEN LoopFinished(st)
    ELSE LET line_content == file_lines[line_number]
             cleaned == IF StartsWith(LStrip(line_content), <<"-">>)
                        THEN Strip(Tail(LStrip(line_content)))
                        ELSE LStrip(line_content)
             s1 == IF StartsWith(cleaned, QuestionWord)
                   THEN [st EXCEPT !.question_mode = TRUE, !.answer_mode = FALSE,
                                   !.depth = Count(line_content, <<"\t">>),
                                   !.seen_question = TRUE]
                   ELSE IF StartsWith(cleaned, AnswerWord)
                   THEN [st EXCEPT !.question_mode = FALSE, !.answer_mode = TRUE,
                                   !.seen_answer = TRUE]
                   ELSE st
             valid_depth == alt_valid_depth(line_content, s1.depth)
             s2 == IF s1.question_mode
                   THEN [s1 EXCEPT !.question =
                            appended(@, ready_string(line_content, s1.depth, QuestionWord))]
                   ELSE IF s1.answer_mode /\ valid_depth
                   THEN [s1 EXCEPT !.answer =
                            appended(@, ready_string(line_content, s1.depth, AnswerWord))]
                   ELSE s1
         IN  IF (s1.answer_mode /\ ~valid_depth) \/ line_number = Len(file_lines)
             THEN LoopRequest(line_number, "line", s2, s2.question,
                              split_anki_id(s2.answer)[1], split_anki_id(s2.answer)[2])
             ELSE question_answer_alt_loop(file_lines, line_number + 1, s2)

\* the loop of an importer from position from on
legacy_loop(importer, file_lines, from, st) ==
    CASE importer = "remnote" -> remnote_loop(file_lines, from, st)
      [] importer = "cloze" -> cloze_loop_legacy(file_lines, from, st)
      [] importer = "enclosed" -> enclosed_loop(file_lines, from, st)
      [] importer = "question_answer" -> question_answer_loop(file_lines, from, st)
      [] importer = "question_answer_alt" -> question_answer_alt_loop(file_lines, from, st)

\* the line on which the loop writes the marker of the flashcard it has
\* imported at position line
marker_line(importer, file_lines, line, st) ==
    CASE importer = "enclosed" -> st.tags[line + 2].line
      [] importer = "question_answer" -> IF line = Len(file_lines) THEN line ELSE line - 1
      [] OTHER -> line

\* what the loop makes of a line after import_flashcard has returned anki_id
marked(importer, text, anki_id) ==
    CASE importer = "question_answer" ->
             LET first == IF Truthy(anki_id)
                          THEN Strip(SplitOn(text, AnkiTag)[1]) \o <<" ">> \o Marker(anki_id)
                          ELSE text
                 split == SplitOn(first, AnkiTag)
             IN  Strip(split[1]) \o <<" ">> \o AnkiTag \o Strip(split[Len(split)])
      [] importer = "question_answer_alt" ->
             IF Truthy(anki_id)
             THEN SplitOn(text, AnkiTag)[1] \o <<" ">> \o Marker(anki_id)
             ELSE text
      [] OTHER ->
             IF Truthy(anki_id) THEN text \o <<" ">> \o Marker(anki_id) ELSE text

\* the variables with which the loop goes on after the import at position line
loop_resumed(importer, line_content, site, st) ==
    CASE importer = "question_answer" ->
             IF site = "question" THEN qa_question_branch(loop_reset(st), line_content)
             ELSE loop_reset(st)
      [] importer = "question_answer_alt" -> loop_reset(st)
      [] OTHER -> st

\* the state of a run: the buffer, the file, and the loop at its next call
legacy_run(importer, file_lines, disk_content, loop, sent) ==
    [op |-> "legacy_run", importer |-> importer, file_lines |-> file_lines,
     disk |-> disk_content, status |-> loop.status, line |-> loop.line,
     site |-> loop.site, st |-> loop.st, card |-> loop.card, sent |-> sent]

\* the buffer after the loop has written the marker of the imported flashcard
legacy_written(p, anki_id) ==
    [p.file_lines EXCEPT ![marker_line(p.importer, p.file_lines, p.line, p.st)] =
        marked(p.importer, @, anki_id)]

\* the run after import_flashcard has returned anki_id
legacy_imported(p, anki_id) ==
    legacy_run(p.importer, legacy_written(p, anki_id),
               write_file(legacy_written(p, anki_id)),
               legacy_loop(p.importer, legacy_written(p, anki_id),
                           IF p.importer = "enclosed" THEN p.line + 3 ELSE p.line + 1,
                           loop_resumed(p.importer, p.file_lines[p.line], p.site, p.st)),
               p.sent + 1)

\* the most blocks a file of a legacy importer is made of
MaxLegacyBlocks == 2

\* the blocks the files of an importer are made of: flashcards of its
\* grammar without and with a marker, and other lines
LegacyBlocks(importer) ==
    CASE importer = "remnote" ->
             { <<<<"q">> \o Colons2 \o <<"a">>>>,
               <<<<"q">> \o Colons3 \o <<"a", " ">> \o Marker(OldId)>>,
               <<<<"t">>>> }
      [] importer = "cloze" ->
             { <<ClozeLine>>, <<OtherClozeLine \o <<" ">> \o Marker(OldId)>>, <<<<"t">>>> }
      [] importer = "enclosed" ->
             { <<TagRegular \o <<" ", "q", " ">> \o TagMiddle \o <<" ", "a", " ">> \o TagEnd>>,
               <<TagReverse, <<"q">>, TagMiddle, <<"a">>, TagEnd \o <<" ">> \o Marker(OldId)>>,
               <<<<"t">>>> }
      [] importer = "question_answer" ->
             { <<HeaderQuestionLine, QText, HeaderAnswerLine, AText>>,
               <<HeaderQuestionLine, QText, HeaderAnswerLine,
                 AText \o <<" ">> \o Marker(OldId)>>,
               <<Heading(1, NextTitle)>> }
      [] importer = "question_answer_alt" ->
             { <<DashQuestion \o <<":", " ", "q">>, DashAnswer \o <<":", " ", "a">>>>,
               <<DashQuestion \o <<":", " ", "q">>,
                 DashAnswer \o <<":", " ", "a", " ">> \o Marker(OldId)>>,
               <<<<"\t">> \o DashQuestion \o <<":", " ", "q">>,
                 <<"\t">> \o DashAnswer \o <<":", " ", "a">>,
                 <<"\t", "-", " ", "z">>>>,
               <<<<"t">>>> }

\* the contents of the files: the lines joined, with or without a final newline
LegacyFiles(importer) ==
    LET texts == {JoinLines(Flatten(bs)) :
                     bs \in UNION {[1..k -> LegacyBlocks(importer)] : k \in 1..MaxLegacyBlocks}}
    IN  texts \cup {t \o <<"\n">> : t \in texts}

\* the run when the importer is called: file_lines is read, the loop runs up
\* to its first call of import_flashcard
legacy_started(importer, content) ==
    legacy_run(importer, splitlines(content), content,
               legacy_loop(importer, splitlines(content), 1,
                           LoopStart(IF importer = "enclosed"
                                     THEN get_enclosed_flashcard_tags_and_lines(
                                              splitlines(content), 1)
                                     ELSE <<>>)),
               0)

\* an importer of the package is called on a file
start_legacy_importer ==
    /\ probe = NoProbe
    /\ \E importer \in LegacyImporters : \E content \in LegacyFiles(importer) :
          probe' = legacy_started(importer, content)
    /\ UNCHANGED mainvars

\* import_flashcard (import_cloze_flashcard) is called and returns or raises:
\* with an identifier it updates the note and returns None, without one it
\* returns the identifier of the note it has added; the loop then writes the
\* marker, calls write_file and goes on to its next call
legacy_import_flashcard ==
    /\ probe.op = "legacy_run"
    /\ probe.status = "request"
    /\ \E returns \in BOOLEAN :
          probe' = IF returns
                   THEN legacy_imported(probe, IF Truthy(probe.card.anki_id) THEN None
                                               ELSE NewId(probe.sent + 1))
                   ELSE [probe EXCEPT !.status = "raised"]
    /\ UNCHANGED mainvars

ProbeNext ==
    \/ call_new_line_content
    \/ construct_header_flashcards
    \/ construct_inline_flashcards
    \/ call_has_enclosed_flashcards
    \/ call_import_remnote_flashcards
    \/ call_import_clozes_definitions
    \/ call_format_clozue
    \/ call_import_cloze_flashcards
    \/ call_store_media
    \/ call_import_images
    \/ call_invoke
    \/ call_importers
    \/ start_legacy_importer
    \/ legacy_import_flashcard

ProbeSpec == ProbeInit /\ [][ProbeNext]_vars

\* C11: encoding an identifier onto a line that carries the marker of a
\* different identifier gives a line with exactly one marker, the new one.
C11_EncodeReplacesOldMarker ==
    (/\ probe.op = "new_line_content"
     /\ probe.where = "inline"
     /\ probe.carried # probe.anki_id) =>
        /\ CountMarkers(probe.result) = 1
        /\ Contains(probe.result, Marker(probe.anki_id))
        /\ ~Contains(probe.result, Marker(probe.carried))

\* C12: a multi-line flashcard that gets a new identifier and whose last line
\* ends (trailing whitespace aside) with the fence closer keeps that line as
\* it is and gets the marker as a new line directly below it; in every other
\* case the marker is appended to the last line itself, after one space.
C12_FenceMarkerOnNewLine ==
    (/\ probe.op = "new_line_content"
     /\ probe.kind = "Header"
     /\ probe.where = "none") =>
        IF EndsWith(Strip(probe.text), Fence)
        THEN SplitLines(probe.result) = <<probe.text, Marker(probe.anki_id)>>
        ELSE /\ SplitLines(probe.result) = <<probe.text \o <<" ">> \o Marker(probe.anki_id)>>
             /\ NoNewline(probe.result, 1, Len(probe.result))

C12_Witness ==
    /\ probe.op = "new_line_content"
    /\ probe.kind = "Header"
    /\ probe.where = "none"
    /\ probe.text = <<"x", " ">> \o Fence
    /\ probe.result = <<"x", " ">> \o Fence \o <<"\n">> \o Marker(NewId(2))

\* no line of the body starts with a hash
PlainBody(body) == \A i \in 1..Len(body) : ~StartsWith(body[i], <<"#">>)

\* C13: when the answer is followed by a heading of depth <= D, the question
\* is the lines between the Question and Answer headings and the answer is
\* the lines between the Answer heading and that heading, also when that
\* heading is the final line of the document.
C13_HeaderBoundary ==
    (/\ probe.op = "header"
     /\ probe.prefix = <<>>
     /\ PlainBody(probe.abody)
     /\ probe.follower # <<>>
     /\ StartsWith(probe.follower[1], <<"#">>)
     /\ probe.follower[1] # Heading(probe.D, QuestionWord)) =>
        LET card == probe.cards[1]
        IN  /\ ~card.raised
            /\ card.question_start_line = 2
            /\ card.question_end_line = 1 + Len(probe.qbody)
            /\ card.answer_start_line = 3 + Len(probe.qbody)
            /\ card.answer_end_line = 2 + Len(probe.qbody) + Len(probe.abody)
            /\ card.front = header_format_string(probe.qbody, 1, Len(probe.qbody))
            /\ card.back = header_format_string(probe.abody, 1, Len(probe.abody))

\* the line of the probe's document that holds line i of the answer body
AnswerBodyLine(i) == Len(probe.prefix) + 1 + Len(probe.qbody) + 1 + i

\* C14: a heading deeper than the Question heading, inside the answer, is
\* part of the answer and does not end it.
C14_DeeperHeadingInsideAnswer ==
    (/\ probe.op = "header"
     /\ probe.prefix = <<>>
     /\ \E i \in 1..Len(probe.abody) : probe.abody[i] = Heading(probe.D + 1, <<"S">>)) =>
        \A i \in 1..Len(probe.abody) :
            probe.abody[i] = Heading(probe.D + 1, <<"S">>) =>
                /\ ~probe.cards[1].raised
                /\ probe.cards[1].answer_end_line >= AnswerBodyLine(i)

\* C15: a line that starts with a hash inside a fenced code block of the
\* answer does not end the answer: the answer reaches the closing fence.
C15_HashInsideFence ==
    (/\ probe.op = "header"
     /\ probe.prefix = <<>>
     /\ \E i \in 1..Len(probe.abody) : probe.abody[i] = Fence) =>
        /\ ~probe.cards[1].raised
        /\ probe.cards[1].answer_end_line >= AnswerBodyLine(Len(probe.abody))

\* C16: a block whose answer runs to the final line of the document is
\* recognized: no error, the answer ends on the last line, which is part of
\* the answer, and the marker goes onto it.
C16_EndOfFileClosesBlock ==
    (/\ probe.op \in {"header", "inline"}
     /\ probe.prefix = <<>>
     /\ probe.follower = <<>>) =>
        LET card == probe.cards[1]
            last_line == Len(probe.file_lines)
        IN  /\ Len(probe.cards) = 1
            /\ ~card.raised
            /\ card.answer_end_line = last_line
            /\ card.answer_start_line <= last_line
            /\ StartsWith(multi_new_line_content(probe.file_lines, card.answer_end_line,
                                                 NewId(1)),
                          probe.file_lines[last_line])

\* C17: the flashcards one importer constructs from a document cover
\* pairwise disjoint line ranges [question start, answer end].
C17_SpansDisjoint ==
    probe.op \in {"header", "inline"} =>
        \A i, j \in 1..Len(probe.cards) :
            (i < j /\ ~probe.cards[i].raised /\ ~probe.cards[j].raised) =>
                \/ probe.cards[i].answer_end_line < probe.cards[j].question_start_line
                \/ probe.cards[j].answer_end_line < probe.cards[i].question_start_line

\* the tag sequence is made of complete, correctly ordered triples
CompleteTriples(tags) ==
    /\ Len(tags) > 0
    /\ Len(tags) % 3 = 0
    /\ \A k \in 0..((Len(tags) \div 3) - 1) :
           /\ tags[3 * k + 1] \in {TagRegular, TagReverse}
           /\ tags[3 * k + 2] = TagMiddle
           /\ tags[3 * k + 3] = TagEnd

\* C18: has_enclosed_flashcards is True only for a tag sequence made of
\* complete, correctly ordered triples; a malformed triple or a leftover tag
\* makes it False and is reported.
C18_EnclosedTagsValid ==
    probe.op = "has_enclosed_flashcards" =>
        /\ probe.value => CompleteTriples(probe.tags)
        /\ (Len(probe.tags) > 0 /\ ~CompleteTriples(probe.tags)) =>
               (~probe.value /\ probe.printed)

\* C19: a line whose separator is the double colon, not the triple colon, is
\* synced with the reversible card model.
C19_DoubleColonReversible ==
    (/\ probe.op = "remnote"
     /\ Contains(probe.line_content, Colons2)
     /\ ~Contains(probe.line_content, Colons3)
     /\ ~probe.card.raised) =>
        probe.card.card_model = "Basic (and reversed card)"

\* C20: a line that is_definition accepts is imported as a Definition and
\* never as a Cloze; every other line containing two asterisks is imported
\* as a Cloze and never as a Definition; no line is imported by both loops.
C20_ClozeDefinitionExclusive ==
    probe.op = "bold" =>
        /\ probe.clozes \cap probe.definitions = {}
        /\ \A n \in 1..Len(probe.file_lines) :
              LET line_content == probe.file_lines[n]
              IN  /\ is_definition(line_content) =>
                         (n \in probe.definitions /\ n \notin probe.clozes)
                  /\ (~is_definition(line_content) /\ Contains(line_content, Stars)) =>
                         (n \in probe.clozes /\ n \notin probe.definitions)
                  /\ ~Contains(line_content, Stars) =>
                         (n \notin probe.clozes /\ n \notin probe.definitions)

\* a file with a definition line and a line of bold text that is no definition
C20_Witness ==
    /\ probe.op = "bold"
    /\ probe.definitions = {1}
    /\ probe.clozes = {2}
    /\ is_definition(probe.file_lines[1])
    /\ Contains(probe.file_lines[2], StarsColon)

\* C21: for a line with n >= 1 pairs of asterisks, format_clozue replaces the
\* k-th pair, counted left to right, by the clozure numbered k, for every
\* k = 1..n; the rest of the text is kept.
C21_ClozeNumbering ==
    probe.op = "format_clozue" =>
        probe.cloze_string =
            <<"<p>">>
                \o (IF probe.prefix = <<"-", " ">> THEN <<>> ELSE probe.prefix)
                \o ClozeBody(probe.words, 1, TRUE)
                \o (IF probe.suffix = <<".">> THEN probe.suffix ELSE <<>>)
                \o <<"</p>">>

\* the line of the example: two bold words after a prefix
C21_Witness ==
    /\ probe.op = "format_clozue"
    /\ Len(probe.words) = 2
    /\ probe.prefix = <<"T", " ">>
    /\ Contains(probe.cloze_string, ClozeOpen(1) \o probe.words[1] \o ClozeClose)
    /\ Contains(probe.cloze_string, ClozeOpen(2) \o probe.words[2] \o ClozeClose)

\* C22: for a line with b blanks, 1 <= b <= 8, the legacy cloze importer
\* rewrites the k-th blank to the clozure numbered k, for every k = 1..b.
C22_LegacyEightBlanks ==
    (/\ probe.op = "legacy_cloze"
     /\ probe.blanks <= 8
     /\ probe.prefix # <<"\\">>) =>
        /\ ~probe.card.raised
        /\ probe.card.question = ClozeBody(BlankWords(probe.blanks), 1, TRUE)

IsNoteRequest(r) == r.action \in {"addNote", "updateNote"}

\* the createDeck requests of the run so far that name the deck of document d
DeckCreations(d) ==
    {i \in 1..Len(log) : log[i].action = "createDeck"
                             /\ deck_name(log[i].doc) = deck_name(d)}

\* C23: before the addNote or updateNote request of a flashcard is sent, its
\* deck is in the store: a createDeck request for the deck's name was sent
\* earlier in the run, or no such request was sent at all and the store held
\* the deck when the run started.
C23_DeckBeforeCard ==
    \A j \in 1..Len(log) :
        IsNoteRequest(log[j]) =>
            /\ InSeq(deck_name(log[j].doc), decks)
            /\ \/ \E i \in DeckCreations(log[j].doc) : i < j
               \/ DeckCreations(log[j].doc) = {}

\* a deck created for the first flashcard of a run, and a later flashcard of
\* another document of the same deck sent without a second creation
C23_Witness ==
    \E i, j, k \in 1..Len(log) :
        /\ i < j /\ j < k
        /\ log[i].action = "createDeck"
        /\ IsNoteRequest(log[j]) /\ log[j].doc = log[i].doc
        /\ IsNoteRequest(log[k]) /\ log[k].doc # log[i].doc
        /\ deck_name(log[k].doc) = deck_name(log[i].doc)
        /\ DeckCreations(log[k].doc) = {i}

\* a run starts by fetching the deck names, and the cache holds what the
\* store holds
SeededAtStart ==
    run' # run =>
        /\ deck_names' = decks
        /\ log'[1].action = "deckNames"
        /\ \A i \in 1..Len(log') : log'[i].action # "createDeck"

\* a createDeck request is sent only for a name the store does not hold (it
\* held none of its names less at the start of the run) and only if the run
\* has sent none for that name
CreatesOnlyUnknown ==
    \A i \in (Len(log) + 1)..Len(log') :
        log'[i].action = "createDeck" =>
            /\ ~InSeq(deck_name(log'[i].doc), decks)
            /\ DeckCreations(log'[i].doc) = {}
            /\ \A k \in (Len(log) + 1)..Len(log') :
                   (log'[k].action = "createDeck"
                        /\ deck_name(log'[k].doc) = deck_name(log'[i].doc)) => k = i

\* C24: the deck cache is seeded from the store before any creation; in one
\* run a createDeck request is sent at most once per deck name and never for
\* a deck name the store reported at the start of the run.
C24_CreateDeckOnce ==
    [][SeededAtStart /\ CreatesOnlyUnknown]_vars

\* a second run that syncs a flashcard of a deck created by the first run
\* and sends no createDeck request for it
C24_Witness ==
    /\ run = 2
    /\ InSeq(deck_name(1), deck_names)
    /\ \E j \in 1..Len(log) : IsNoteRequest(log[j]) /\ log[j].doc = 1
    /\ DeckCreations(1) = {}

\* C25: when the constructor of a Header or Inline-list flashcard raises its
\* malformed-grammar error, the run of main is not halted: it goes on with
\* the remaining grammars and documents.
C25_MalformedGrammarContinues ==
    (/\ hist.last.kind \in {"Header", "Inline"}
     /\ hist.last.raised
     /\ hist.last.request = "none") =>
        pc.phase # "halted"

\* C26: when a flashcard refers to an image that is not on disk, no
\* storeMediaFile request is sent for the image, the miss is printed, no
\* exception is raised and the flashcard is still synced.
C26_MissingMediaWarning ==
    (/\ probe.op \in {"store_media", "import_images"}
     /\ Len(probe.missing) > 0) =>
        /\ ~probe.raised
        /\ probe.synced
        /\ Len(probe.printed) = Len(probe.missing)
        /\ \A i \in 1..Len(probe.missing) : ~InSeq(probe.missing[i], probe.uploads)

\* the part of C26 the legacy importer is held to
LegacyMissingMediaWarning ==
    probe.op = "import_images" => C26_MissingMediaWarning

HasSlash(name) == \E i \in 1..Len(name) : name[i] = "/"

\* C27: every image reference in the text of a flashcard synced by the MDFile
\* pipeline gets an upload decision (a call of store_media_file), under a
\* file name without a slash.
C27_ImageTriggersDecision ==
    (probe.op = "store_media" /\ probe.synced) =>
        /\ Len(probe.decisions) = Len(probe.references)
        /\ \A i \in 1..Len(probe.decisions) : ~HasSlash(probe.decisions[i])

\* the response has exactly the fields error and result, and error is null
WellFormedOk(response) ==
    /\ DOMAIN response = {"error", "result"}
    /\ response["error"] = Null

\* C28: invoke returns a result only for a response with exactly the two
\* fields error and result whose error is null; for every other response it
\* returns nothing and raises, DuplicateNoteError exactly when the error
\* text is the distinguished duplicate text, ValueError otherwise.
C28_InvokeOutcome ==
    probe.op = "invoke" =>
        /\ probe.outcome.returned <=> WellFormedOk(probe.response)
        /\ probe.outcome.returned => probe.outcome.raised = "none"
        /\ ~probe.outcome.returned =>
               probe.outcome.raised =
                   IF /\ DOMAIN probe.response = {"error", "result"}
                      /\ probe.response["error"] = DuplicateText
                   THEN "DuplicateNoteError" ELSE "ValueError"

\* the part of C28 the connector of update_flashcards.py is held to
PipelineInvokeOutcome ==
    (probe.op = "invoke" /\ probe.connector = "update_flashcards") => C28_InvokeOutcome

\* the notes of the store whose identifier no document embeds
Orphans == StoreIds \ EmbeddedIds

\* C29: after all documents are processed, the identifiers requested for
\* deletion are exactly those of the notes of the store minus those embedded
\* as markers in the documents.
C29_OrphansRequested ==
    (pc.phase = "done" /\ Orphans # {}) =>
        \E i \in 1..Len(log) : log[i].action = "deleteNotes" /\ log[i].id = Orphans

\* C30: no deleteNotes request is sent without a confirmation before it (no
\* step of the program is a confirmation), and no step of the program takes
\* a note out of the store.
C30_NoDeletionUnconfirmed ==
    [][/\ StoreIds \subseteq {n.id : n \in store'}
       /\ \A i \in (Len(log) + 1)..Len(log') : log'[i].action # "deleteNotes"]_vars

\* a run that ended after its last document while the store holds a note
\* that no document embeds
C30_Witness ==
    /\ pc.phase = "done"
    /\ OldId \in Orphans
    /\ \E n \in store : n.id # OldId

\* the place of a flashcard class in the order in which main calls the importers
ImporterRank(kind) ==
    CASE kind = "Cloze" -> 1
      [] kind = "Definition" -> 2
      [] kind = "Header" -> 3
      [] kind = "Inline" -> 4
      [] OTHER -> 0

\* the step sends the requests of a flashcard and the last step that sent
\* requests was in the same run
NextRequestStep ==
    /\ hist'.last # hist.last
    /\ hist.last.request # "none"
    /\ hist'.last.request # "none"

\* C31 (as stated): the requests and the export of a document come before
\* every request of the next document, and within one document the requests
\* of its flashcards are sent in increasing line position.
C31_DocumentOrder ==
    [][/\ \A i, j \in 1..Len(log') : i < j => log'[i].doc <= log'[j].doc
       /\ NextRequestStep =>
              \/ hist'.last.doc > hist.last.doc
              \/ /\ hist'.last.doc = hist.last.doc
                 /\ hist'.last.start > hist.last.start]_vars

\* C31 (amended): the requests and the export of a document come before every
\* request of the next document; within one document the importers run one
\* after the other (clozes, definitions, header, inline) and the requests of
\* one importer are sent in increasing line position.
C31_SequentialByImporter ==
    [][/\ \A i, j \in 1..Len(log') : i < j => log'[i].doc <= log'[j].doc
       /\ NextRequestStep =>
              \/ hist'.last.doc > hist.last.doc
              \/ /\ hist'.last.doc = hist.last.doc
                 /\ \/ ImporterRank(hist'.last.kind) > ImporterRank(hist.last.kind)
                    \/ /\ hist'.last.kind = hist.last.kind
                       /\ hist'.last.start > hist.last.start]_vars

\* a header flashcard that starts at the first line is requested after another
\* flashcard of the same document, and a request of the next document follows
C31_Witness ==
    /\ hist.last.doc = 2
    /\ hist.last.request # "none"
    /\ \E i \in RequestsOf({"addNote", "updateNote"}) : log[i].doc = 1
    /\ Contains(mdfiles[1].file_lines[1], QuestionWord)
    /\ Cardinality({i \in RequestsOf({"addNote", "updateNote"}) : log[i].doc = 1}) >= 2

\* the lines a multi-line flashcard is built from
SpanLines(card) == card.question_start_line..card.answer_end_line

\* C32: for a document with one Cloze line, one Definition line, one Header
\* Q/A block and one Inline-list Q/A block on pairwise disjoint lines, each
\* importer imports exactly one flashcard, built only from the lines of the
\* instance of its own grammar.
C32_GrammarDisjointness ==
    probe.op = "importers" =>
        /\ probe.clozes = InstanceLines(probe.order, "Cloze")
        /\ probe.definitions = InstanceLines(probe.order, "Definition")
        /\ Len(probe.header) = 1
        /\ ~probe.header[1].raised
        /\ SpanLines(probe.header[1]) \subseteq InstanceLines(probe.order, "Header")
        /\ Len(probe.inline) = 1
        /\ ~probe.inline[1].raised
        /\ SpanLines(probe.inline[1]) \subseteq InstanceLines(probe.order, "Inline")

\* the same for the documents in which the Inline-list block is followed by
\* a heading or by nothing
InlineClosedDisjointness ==
    (/\ probe.op = "importers"
     /\ \A i \in 1..3 : probe.order[i] = "Inline" => probe.order[i + 1] = "Header") =>
        /\ probe.clozes = InstanceLines(probe.order, "Cloze")
        /\ probe.definitions = InstanceLines(probe.order, "Definition")
        /\ Len(probe.header) = 1
        /\ ~probe.header[1].raised
        /\ SpanLines(probe.header[1]) \subseteq InstanceLines(probe.order, "Header")
        /\ Len(probe.inline) = 1
        /\ ~probe.inline[1].raised
        /\ SpanLines(probe.inline[1]) \subseteq InstanceLines(probe.order, "Inline")

\* the directory of document d, relative to the configured root
DirPath(d) == SubSeq(DocPath(d), 1, Len(DocPath(d)) - 1)

\* C33: two documents whose directory paths below the configured root differ
\* in a component are synced to different decks.
C33_DeckFromRelativePath ==
    \A i, j \in RequestsOf({"addNote", "updateNote"}) :
        DirPath(log[i].doc) # DirPath(log[j].doc) =>
            deck_name(log[i].doc) # deck_name(log[j].doc)

\* C34: no field of the note sent in an addNote or updateNote request holds a
\* marker, whether the marker is at the end of a line of the flashcard or on
\* a line of its own.
C34_MarkerStripped ==
    hist.last.request # "none" =>
        \A k \in 1..Len(hist.last.fields) :
            \A i \in 1..Len(hist.last.fields[k]) : ~MarkerAt(hist.last.fields[k], i)

\* a header flashcard whose last line is a marker on a line of its own is sent
C34_Witness ==
    /\ hist.last.request = "updateNote"
    /\ hist.last.kind = "Header"
    /\ IsMarkerLine(hist.last.text)
    /\ Len(hist.last.fields) = 2

\* the call is on a block with plain lines whose answer is directly followed
\* by a marker on a line of its own
OwnLineMarkerBelow ==
    /\ probe.op \in {"header", "inline"}
    /\ probe.prefix = <<>>
    /\ probe.op = "header" => PlainBody(probe.abody)
    /\ probe.op = "inline" => probe.indent = <<>>
    /\ Len(probe.follower) >= 1
    /\ IsMarkerLine(probe.follower[1])

\* C35: a marker on its own line directly below a multi-line span gives the
\* span its identifier and ends it: answer_end_line is the line above the
\* marker line, also when the marker line is the final line of the document.
C35_OwnLineMarkerEndsSpan ==
    OwnLineMarkerBelow =>
        LET card == probe.cards[1]
            marker_position == Len(probe.file_lines) - Len(probe.follower) + 1
        IN  /\ ~card.raised
            /\ card.anki_id = MarkerId(probe.follower[1], 1)
            /\ card.answer_end_line = marker_position - 1

\* the same when a line follows the marker line
OwnLineMarkerBeforeEnd ==
    (OwnLineMarkerBelow /\ Len(probe.follower) >= 2) =>
        LET card == probe.cards[1]
            marker_position == Len(probe.file_lines) - Len(probe.follower) + 1
        IN  /\ ~card.raised
            /\ card.anki_id = MarkerId(probe.follower[1], 1)
            /\ card.answer_end_line = marker_position - 1

\* C36: when a legacy importer is about to call import_flashcard after an
\* earlier call has returned, the file on storage holds the lines of the
\* buffer: write_file has run after that call and the buffer has not been
\* changed since.
C36_FileEqualsBuffer ==
    (/\ probe.op = "legacy_run"
     /\ probe.status = "request"
     /\ probe.sent >= 1) =>
        probe.disk = JoinLines(probe.file_lines)

\* the header importer is about to import its second flashcard and the file
\* holds the marker of the first
C36_Witness ==
    /\ probe.op = "legacy_run"
    /\ probe.importer = "question_answer"
    /\ probe.status = "request"
    /\ probe.sent = 1
    /\ Contains(probe.disk, Marker(NewId(1)))
    /\ \E i \in 1..Len(probe.file_lines) : EndsWith(probe.file_lines[i], Marker(NewId(1)))

\* C39: import_question_answer_alt_flashcards calls import_flashcard only
\* when a Question line and an Answer line have both been seen since its
\* last call, and never with an empty question and an empty answer.
C39_CompletedPairOnly ==
    (/\ probe.op = "legacy_run"
     /\ probe.importer = "question_answer_alt"
     /\ probe.status = "request") =>
        /\ probe.st.seen_question
        /\ probe.st.seen_answer
        /\ ~(probe.card.question = <<>> /\ probe.card.answer = <<>>)

\* the same for the calls that are not made for the final line of the file
AltCallBeforeLastLine ==
    (/\ probe.op = "legacy_run"
     /\ probe.importer = "question_answer_alt"
     /\ probe.status = "request"
     /\ probe.line < Len(probe.file_lines)) =>
        /\ probe.st.seen_question
        /\ probe.st.seen_answer
        /\ ~(probe.card.question = <<>> /\ probe.card.answer = <<>>)

\* the documents of a run are in memory
Loaded ==
    \/ pc.phase \in {"clozes", "definitions", "header", "inline", "export", "done"}
    \/ pc.phase = "halted" /\ pc.cause # "stopped"

\* text is original, or original followed by one marker suffix: a space or a
\* newline, then the marker
OriginalOrMarked(text, original) ==
    \/ text = original
    \/ /\ Len(text) = Len(original) + 1 + MarkerLen
       /\ SubSeq(text, 1, Len(original)) = original
       /\ text[Len(original) + 1] \in {" ", "\n"}
       /\ MarkerAt(text, Len(original) + 2)

\* C37: during a run file_lines of every document is the snapshot read when
\* the run started, updated_file_lines keeps its number of elements, and each
\* of its elements is the original line or the original line followed by
\* exactly one marker suffix.
C37_FrameOfBuffers ==
    Loaded =>
        \A d \in DocIds :
            /\ mdfiles[d].file_lines = SplitLines(hist.diskAtBoot[d])
            /\ Len(mdfiles[d].updated_file_lines) = Len(mdfiles[d].file_lines)
            /\ \A i \in 1..Len(mdfiles[d].file_lines) :
                   OriginalOrMarked(mdfiles[d].updated_file_lines[i],
                                    mdfiles[d].file_lines[i])

\* all importers have run on a document: one element carries a marker after a
\* space, another a marker after a newline
C37_Witness ==
    /\ pc.phase = "export"
    /\ \E i \in 1..Len(mdfiles[pc.doc].file_lines) :
           mdfiles[pc.doc].updated_file_lines[i] =
               mdfiles[pc.doc].file_lines[i] \o <<" ">> \o Marker(hist.last.value)
    /\ \E d \in DocIds : \E i \in 1..Len(mdfiles[d].file_lines) :
           \E j \in 1..Len(mdfiles[d].updated_file_lines[i]) :
               /\ mdfiles[d].updated_file_lines[i][j] = "\n"
               /\ MarkerAt(mdfiles[d].updated_file_lines[i], j + 1)

\* every run so far has completed
AllRunsComplete == pc.phase = "done" /\ (run = 1 \/ hist.prevComplete)

\* the number of markers on the lines of a multi-line flashcard
SpanMarkers(file_lines, card) ==
    CountMarkers(JoinLines(SubSeq(file_lines, card.question_start_line,
                                  card.answer_end_line)))

\* C38: after complete runs on a document that had no markers before the
\* first run, no line of the document holds more than one marker and no
\* flashcard span carries two markers.
C38_AtMostOneMarker ==
    AllRunsComplete =>
        \A d \in DocIds :
            CountMarkers(hist.diskAtStart[d]) = 0 =>
                LET written == SplitLines(disk[d])
                    header == HeaderCards(written, 1)
                    inline == InlineCards(written, 1)
                IN  /\ \A i \in 1..Len(written) : CountMarkers(written[i]) <= 1
                    /\ \A k \in 1..Len(header) :
                           ~header[k].raised => SpanMarkers(written, header[k]) <= 1
                    /\ \A k \in 1..Len(inline) :
                           ~inline[k].raised => SpanMarkers(written, inline[k]) <= 1

\* after one complete run on a document that had no markers, no line holds
\* more than one marker
OneRunAtMostOneMarker ==
    (pc.phase = "done" /\ run = 1) =>
        \A d \in DocIds :
            CountMarkers(hist.diskAtStart[d]) = 0 =>
                \A i \in 1..Len(SplitLines(disk[d])) :
                    CountMarkers(SplitLines(disk[d])[i]) <= 1

====
